---------------------------- MODULE Spec2Model ----------------------------
(***************************************************************************)
(* Deployment lifecycle orchestrator (DeployAgent): namespace ensure,      *)
(* ordered create-or-replace rollout, readiness wait with a deadline,      *)
(* address resolution, rollback; and the monitoring campaign with its      *)
(* health report (MonitorAgent).                                           *)
(* The cluster API is the environment: it answers every call with success, *)
(* with the condition the live state dictates (404 / 409), or with an      *)
(* unclassified failure.                                                   *)
(***************************************************************************)
EXTENDS Integers, Sequences, FiniteSets, TLC

(* ------------------------------ bounds --------------------------------- *)

\* deploy invocations per behaviour (each mints one correlation identifier)
MaxDeploys == 2

\* direct waitForDeployment calls per behaviour of SpecWait
MaxWaitCalls == 2

\* largest readyReplicas the deployment controller reports
MaxReady == 2

(* ------------------------- program constants --------------------------- *)

DefaultTimeoutMs == 300000

PollIntervalMs == 5000

Conflict == 409

NotFound == 404

\* the answer of a cluster call that did not throw
Ok == 200

ManagedBy == "mcp-devops-server"

(* --------------------------- environment ------------------------------- *)

Procs == {1, 2}

\* failures of the cluster API that are neither not-found nor conflict
Unclassified == {403, 500}

\* time one cluster read takes before it answers, in ms
Latencies == {0, 5000}

MaxLatency == CHOOSE l \in Latencies : \A m \in Latencies : m <= l

\* uuidv4(): the n-th call returns a token no earlier call returned
Uuids == <<"uuid-1", "uuid-2", "uuid-3", "uuid-4", "uuid-5">>

uuidv4(n) == Uuids[n]

Namespaces == {"staging"}

Kinds == {"deployment", "service", "ingress"}

\* status.readyReplicas / a field the object does not have
Missing == -1

(* ------------------------------ strings -------------------------------- *)
\* A string is a sequence of one-character strings.

Lower(c) ==
  CASE c = "A" -> "a" [] c = "S" -> "s" [] OTHER -> c

\* [^a-z0-9-]
IsNameChar(c) == c \in {"a", "c", "e", "m", "s", "h", "o", "p", "w", "b", "0", "1", "-"}

Sanitize(s) ==
  [i \in 1..Len(s) |-> LET c == Lower(s[i]) IN IF IsNameChar(c) THEN c ELSE "-"]

Undefined == <<"u", "n", "d", "e", "f", "i", "n", "e", "d">>

\* positions of the separator in s
SepPositions(s, sep) == {i \in 1..Len(s) : s[i] = sep}

\* s.split(sep)[k - 1], or Undefined when there is no such piece
Piece(s, sep, k) ==
  LET cuts == SepPositions(s, sep)
      nth(j) == CHOOSE i \in cuts : Cardinality({x \in cuts : x < i}) = j - 1
      from == IF k = 1 THEN 1 ELSE nth(k - 1) + 1
      to == IF Cardinality(cuts) >= k THEN nth(k) - 1 ELSE Len(s)
  IN IF Cardinality(cuts) < k - 1 THEN Undefined ELSE SubSeq(s, from, to)

AppName(repository) ==
  Sanitize(Piece(repository, "/", 1) \o <<"-">> \o Piece(repository, "/", 2))


(* ---------------------------- descriptors ------------------------------ *)

Str_a_s == <<"a", "-", "s">>

Str_a_w == <<"a", "-", "w">>

ServiceSuffix == <<"-", "s", "e", "r", "v", "i", "c", "e">>

IngressSuffix == <<"-", "i", "n", "g", "r", "e", "s", "s">>

NoLabels == [k \in {} |-> ""]

\* an entry kubernetes_config does not have
NoDesc == [absent |-> TRUE]

Present(d) == "metadata" \in DOMAIN d

DeploymentDesc(name, labels, replicas) ==
  [metadata |-> [name |-> name, labels |-> labels], spec |-> [replicas |-> replicas]]

ServiceDesc(name, labels, port) ==
  [metadata |-> [name |-> name, labels |-> labels], spec |-> [port |-> port]]

IngressDesc(name, labels, host) ==
  [metadata |-> [name |-> name, labels |-> labels], spec |-> [host |-> host]]

\* the kubernetes_config values a caller passes
Configs ==
  { [deployment |-> DeploymentDesc(Str_a_s, NoLabels, 1),
     service |-> ServiceDesc(Str_a_s \o ServiceSuffix, NoLabels, 80),
     ingress |-> IngressDesc(Str_a_s \o IngressSuffix, NoLabels, "a.example.com")],
    [deployment |-> DeploymentDesc(Str_a_s, ("deployment-id" :> "uuid-1" @@ "tier" :> "web"), 2),
     service |-> ServiceDesc(Str_a_s \o ServiceSuffix, [tier |-> "web"], 8080),
     ingress |-> NoDesc],
    [deployment |-> NoDesc,
     service |-> NoDesc,
     ingress |-> IngressDesc(Str_a_s \o IngressSuffix, ("managed-by" :> "helm" @@ "tier" :> "web"), "b.example.com")],
    [deployment |-> DeploymentDesc(Str_a_w, ("deployment-id" :> "uuid-1"), 1),
     service |-> NoDesc,
     ingress |-> NoDesc] }

\* repository: "A/s"
Repositories == { <<"A", "/", "s">> }

(* ----------------------- label stamping (pure) ------------------------- *)

\* a faulty variant: the spread of the descriptor's labels comes last
StampLabels_SpreadLast(labels, deploymentId) ==
  [k \in DOMAIN labels \cup {"deployment-id", "managed-by"} |->
     IF k \in DOMAIN labels THEN labels[k]
     ELSE IF k = "deployment-id" THEN deploymentId ELSE ManagedBy]

\* { ...labels, 'deployment-id': deploymentId, 'managed-by': 'mcp-devops-server' }
StampLabels(labels, deploymentId) ==
  [k \in DOMAIN labels \cup {"deployment-id", "managed-by"} |->
     IF k = "deployment-id" THEN deploymentId
     ELSE IF k = "managed-by" THEN ManagedBy
     ELSE labels[k]]

\* { ...desc, metadata: { ...desc.metadata, labels: {...} } }
Stamp(desc, deploymentId) ==
  [desc EXCEPT !.metadata.labels = StampLabels(desc.metadata.labels, deploymentId)]

(* ------------------------------ cluster -------------------------------- *)

Key(ns, kind, name) == <<ns, kind, name>>

\* the object the cluster stores for a created descriptor
NewObject(desc) ==
  [labels |-> desc.metadata.labels, spec |-> desc.spec]

\* a full replace overwrites the labels and the spec of the stored object
ReplacedObject(old, desc) ==
  [old EXCEPT !.labels = desc.metadata.labels, !.spec = desc.spec]

ApiError(code) == [kind |-> "api", statusCode |-> code]

TimeoutError(appName, timeoutMs) ==
  [kind |-> "timeout", name |-> appName, timeoutMs |-> timeoutMs]


(* ------------------------------- state --------------------------------- *)

VARIABLES
  nsExists,           \* cluster: the namespaces that exist
  live,               \* cluster: <<namespace, kind, name>> -> object, for the objects that exist
  now,                \* Date.now()
  minted,             \* number of uuidv4() calls so far
  pc,                 \* per invocation: where it is suspended
  op,                 \* per invocation: the entry point that was called
  params,             \* per invocation: repository, kubernetes_config, namespace
  deploymentId,       \* deploy: const deploymentId
  stage,              \* deployToKubernetes: index of the descriptor being applied
  deployedResources,  \* deployToKubernetes: const deployedResources
  startTime,          \* waitForDeployment: const startTime
  timeoutMs,          \* waitForDeployment: parameter timeoutMs
  lastRead,           \* waitForDeployment: what the latest poll saw
  result,             \* per invocation: what the entry point returned or threw
  calls,              \* per invocation: the namespace and apply calls answered so far
  applied,            \* per namespace and kind: the latest two applies, oldest first
  returned,           \* the deployment_id of every deploy that returned
  waitCalls,          \* number of direct waitForDeployment calls so far
  lookups,            \* getServiceUrl: what the ingress and the service read answered
  rollbackRequests,   \* cluster: the revision rollbacks it accepted, oldest first
  items,              \* rollback, findDeploymentById: deployments.items
  iterations,         \* performMonitoring: const iterations
  iteration,          \* performMonitoring: let i
  results,            \* performMonitoring: const results
  pauses,             \* performMonitoring: the sleep calls that completed
  convergedAt         \* cluster: the time from which the Deployment a-s is converged, if fixed

vars ==
  <<nsExists, live, now, minted, pc, op, params, deploymentId, stage,
    deployedResources, startTime, timeoutMs, lastRead, result, calls,
    applied, returned, waitCalls, lookups, rollbackRequests, items,
    iterations, iteration, results, pauses, convergedAt>>

clusterVars == <<nsExists, live>>

waitVars == <<startTime, timeoutMs, lastRead>>

historyVars == <<applied, returned>>

rollbackVars == <<rollbackRequests, items>>

monitorVars == <<iterations, iteration, results, pauses>>

\* a lookup getServiceUrl has not made
NoLookup == [res |-> 0]

NoLookups == [ingress |-> NoLookup, service |-> NoLookup]

NoParams == [repository |-> <<>>, kubernetes_config |-> NoDesc, namespace |-> ""]

NoResult == [status |-> "none"]

NoRead == "none"

Exists(ns, kind, name) == Key(ns, kind, name) \in DOMAIN live

\* the latest two entries of a log
Latest2(log) == IF Len(log) > 2 THEN SubSeq(log, Len(log) - 1, Len(log)) ELSE log

Init ==
  /\ nsExists = {}
  /\ live = <<>>
  /\ now = 0
  /\ minted = 0
  /\ pc = [p \in Procs |-> "idle"]
  /\ op = [p \in Procs |-> "none"]
  /\ params = [p \in Procs |-> NoParams]
  /\ deploymentId = [p \in Procs |-> ""]
  /\ stage = [p \in Procs |-> 0]
  /\ deployedResources = [p \in Procs |-> <<>>]
  /\ startTime = [p \in Procs |-> 0]
  /\ timeoutMs = [p \in Procs |-> 0]
  /\ lastRead = [p \in Procs |-> NoRead]
  /\ result = [p \in Procs |-> NoResult]
  /\ calls = [p \in Procs |-> <<>>]
  /\ applied = [ns \in Namespaces |-> [k \in Kinds |-> <<>>]]
  /\ returned = {}
  /\ waitCalls = 0
  /\ lookups = [p \in Procs |-> NoLookups]
  /\ rollbackRequests = <<>>
  /\ items = <<>>
  /\ iterations = 0
  /\ iteration = 0
  /\ results = <<>>
  /\ pauses = 0
  /\ convergedAt = Missing

(* ------------------------- DeployAgent.deploy -------------------------- *)

\* the clock readings an invocation may start at
StartClocks == {0, 5000}

\* a faulty variant: the service block comes first
ApplyOrder_ServiceFirst == <<"service", "deployment", "ingress">>

\* deployment, then service, then ingress
ApplyOrder == <<"deployment", "service", "ingress">>

\* a faulty variant: the service block replaces on conflict as the others do
Replaces_ServiceToo(kind) == kind \in {"deployment", "service", "ingress"}

\* a faulty variant: only the ingress block replaces on conflict
Replaces_IngressOnly(kind) == kind = "ingress"

\* the kinds whose create conflict falls back to a replace
Replaces(kind) == kind \in {"deployment", "ingress"}

Descriptor(p, i) == params[p].kubernetes_config[ApplyOrder[i]]

\* the next descriptor kubernetes_config has, after index i; Len + 1 when none
NextStage(p, i) ==
  LET later == {j \in (i + 1)..Len(ApplyOrder) : Present(Descriptor(p, j))}
  IN IF later = {} THEN Len(ApplyOrder) + 1
     ELSE CHOOSE j \in later : \A m \in later : j <= m

Logged(p, o, kind, res) == Append(calls[p], [op |-> o, kind |-> kind, res |-> res])

\* throw error: every catch block on the way out logs and rethrows it
Throw(p, error) ==
  /\ pc' = [pc EXCEPT ![p] = "idle"]
  /\ result' = [result EXCEPT ![p] = [status |-> "error", error |-> error]]

\* deploy(params), up to the first await
Deploy(p) ==
  /\ pc[p] = "idle"
  /\ minted < MaxDeploys
  /\ \E repository \in Repositories, cfg \in Configs, ns \in Namespaces, t \in StartClocks :
       /\ params' = [params EXCEPT ![p] =
            [repository |-> repository, kubernetes_config |-> cfg, namespace |-> ns]]
       /\ now' = t
  /\ minted' = minted + 1
  /\ deploymentId' = [deploymentId EXCEPT ![p] = uuidv4(minted + 1)]
  /\ op' = [op EXCEPT ![p] = "deploy"]
  /\ pc' = [pc EXCEPT ![p] = "readNamespace"]
  /\ stage' = [stage EXCEPT ![p] = 0]
  /\ deployedResources' = [deployedResources EXCEPT ![p] = <<>>]
  /\ lastRead' = [lastRead EXCEPT ![p] = NoRead]
  /\ result' = [result EXCEPT ![p] = NoResult]
  /\ calls' = [calls EXCEPT ![p] = <<>>]
  /\ startTime' = [startTime EXCEPT ![p] = 0]
  /\ timeoutMs' = [timeoutMs EXCEPT ![p] = 0]
  /\ lookups' = [lookups EXCEPT ![p] = NoLookups]
  /\ UNCHANGED <<clusterVars, historyVars, waitCalls, rollbackVars, monitorVars>>
  /\ UNCHANGED convergedAt

\* a faulty variant: deploy does not await the readiness wait
EnterStage_NoWait(p, i) ==
  /\ stage' = [stage EXCEPT ![p] = i]
  /\ pc' = [pc EXCEPT ![p] = IF i <= Len(ApplyOrder) THEN "create" ELSE "resolve"]
  /\ UNCHANGED waitVars

\* deployToKubernetes starts: the first descriptor kubernetes_config has, or the
\* return of an empty sequence and the start of waitForDeployment
EnterStage(p, i) ==
  /\ stage' = [stage EXCEPT ![p] = i]
  /\ IF i <= Len(ApplyOrder)
     THEN /\ pc' = [pc EXCEPT ![p] = "create"]
          /\ UNCHANGED waitVars
     ELSE /\ pc' = [pc EXCEPT ![p] = "waitLoop"]
          /\ startTime' = [startTime EXCEPT ![p] = now]
          /\ timeoutMs' = [timeoutMs EXCEPT ![p] = DefaultTimeoutMs]
          /\ UNCHANGED lastRead

\* a faulty variant: every failed read counts as a missing namespace
IsNotFound_AnyFailure(res) == res # Ok

\* error.response?.statusCode === 404
IsNotFound(res) == res = NotFound

\* what the cluster may answer to readNamespace
ReadNamespaceAnswers(ns) ==
  Unclassified \cup {IF ns \in nsExists THEN Ok ELSE NotFound}

\* what the cluster may answer to createNamespace
CreateNamespaceAnswers(ns) ==
  Unclassified \cup {IF ns \in nsExists THEN Conflict ELSE Ok}

\* ensureNamespace: await readNamespace(namespace), and the catch block's test
ReadNamespace(p) ==
  /\ pc[p] = "readNamespace"
  /\ \E res \in ReadNamespaceAnswers(params[p].namespace) :
       /\ calls' = [calls EXCEPT ![p] = Logged(p, "read", "namespace", res)]
       /\ IF res = Ok
          THEN EnterStage(p, NextStage(p, 0)) /\ UNCHANGED result
          ELSE IF IsNotFound(res)
          THEN /\ pc' = [pc EXCEPT ![p] = "createNamespace"]
               /\ UNCHANGED <<result, stage, waitVars>>
          ELSE Throw(p, ApiError(res)) /\ UNCHANGED <<stage, waitVars>>
  /\ UNCHANGED <<clusterVars, now, minted, op, params, deploymentId,
                 deployedResources, historyVars, waitCalls>>
  /\ UNCHANGED <<lookups, rollbackVars, monitorVars>>
  /\ UNCHANGED convergedAt

\* ensureNamespace: await createNamespace(namespaceManifest)
CreateNamespace(p) ==
  /\ pc[p] = "createNamespace"
  /\ \E res \in CreateNamespaceAnswers(params[p].namespace) :
       /\ calls' = [calls EXCEPT ![p] = Logged(p, "create", "namespace", res)]
       /\ IF res = Ok
          THEN /\ nsExists' = nsExists \cup {params[p].namespace}
               /\ EnterStage(p, NextStage(p, 0))
               /\ UNCHANGED result
          ELSE /\ Throw(p, ApiError(res))
               /\ UNCHANGED <<nsExists, stage, waitVars>>
  /\ UNCHANGED <<live, now, minted, op, params, deploymentId,
                 deployedResources, historyVars, waitCalls>>
  /\ UNCHANGED <<lookups, rollbackVars, monitorVars>>
  /\ UNCHANGED convergedAt

(* -------------------- DeployAgent.deployToKubernetes ------------------- *)

\* a faulty variant: the test is for the wrong status code
IsConflict_WrongCode(res) == res = NotFound

\* a faulty variant: every failed create counts as a conflict
IsConflict_AnyFailure(res) == res # Ok

\* error.response?.statusCode === 409
IsConflict(res) == res = Conflict

\* what the cluster may answer to a create of the named object
CreateAnswers(ns, kind, name) ==
  Unclassified \cup {IF Exists(ns, kind, name) THEN Conflict ELSE Ok}

\* what the cluster may answer to a replace or a read of the named object
NamedAnswers(ns, kind, name) ==
  Unclassified \cup {IF Exists(ns, kind, name) THEN Ok ELSE NotFound}

Outcome(kind, desc, status) ==
  [type |-> kind, name |-> desc.metadata.name, status |-> status]

\* the apply of one descriptor is over: remember it as the latest of its kind
Remember(p, kind, status, code) ==
  applied' = [applied EXCEPT ![params[p].namespace][kind] =
    Latest2(Append(@, [descriptor |-> Descriptor(p, stage[p]),
                       deploymentId |-> deploymentId[p],
                       found |-> Exists(params[p].namespace, kind,
                                        Descriptor(p, stage[p]).metadata.name),
                       status |-> status, faulted |-> code \in Unclassified]))]

\* deployedResources.push(...), then the next descriptor
Push(p, kind, desc, status) ==
  /\ deployedResources' =
       [deployedResources EXCEPT ![p] = Append(@, Outcome(kind, desc, status))]
  /\ Remember(p, kind, status, Ok)
  /\ EnterStage(p, NextStage(p, stage[p]))
  /\ UNCHANGED result

\* await create...(namespace, descriptor), and the catch block's test
CreateResource(p) ==
  /\ pc[p] = "create"
  /\ LET kind == ApplyOrder[stage[p]]
         desc == Stamp(Descriptor(p, stage[p]), deploymentId[p])
         ns == params[p].namespace
     IN \E res \in CreateAnswers(ns, kind, desc.metadata.name) :
          /\ calls' = [calls EXCEPT ![p] = Logged(p, "create", kind, res)]
          /\ IF res = Ok
             THEN /\ live' = (Key(ns, kind, desc.metadata.name) :> NewObject(desc)) @@ live
                  /\ Push(p, kind, desc, "created")
             ELSE IF IsConflict(res) /\ Replaces(kind)
             THEN /\ pc' = [pc EXCEPT ![p] = "replace"]
                  /\ UNCHANGED <<live, deployedResources, applied, result, stage, waitVars>>
             ELSE IF IsConflict(res)
             THEN /\ Push(p, kind, desc, "exists")
                  /\ UNCHANGED live
             ELSE /\ Throw(p, ApiError(res))
                  /\ Remember(p, kind, "error", res)
                  /\ UNCHANGED <<live, deployedResources, stage, waitVars>>
  /\ UNCHANGED <<nsExists, now, minted, op, params, deploymentId, returned, waitCalls>>
  /\ UNCHANGED <<lookups, rollbackVars, monitorVars>>
  /\ UNCHANGED convergedAt

\* await replace...(name, namespace, descriptor), inside the catch block
ReplaceResource(p) ==
  /\ pc[p] = "replace"
  /\ LET kind == ApplyOrder[stage[p]]
         desc == Stamp(Descriptor(p, stage[p]), deploymentId[p])
         ns == params[p].namespace
         key == Key(ns, kind, desc.metadata.name)
     IN \E res \in NamedAnswers(ns, kind, desc.metadata.name) :
          /\ calls' = [calls EXCEPT ![p] = Logged(p, "replace", kind, res)]
          /\ IF res = Ok
             THEN /\ live' = [live EXCEPT ![key] = ReplacedObject(@, desc)]
                  /\ Push(p, kind, desc, "updated")
             ELSE /\ Throw(p, ApiError(res))
                  /\ Remember(p, kind, "error", res)
                  /\ UNCHANGED <<live, deployedResources, stage, waitVars>>
  /\ UNCHANGED <<nsExists, now, minted, op, params, deploymentId, returned, waitCalls>>
  /\ UNCHANGED <<lookups, rollbackVars, monitorVars>>
  /\ UNCHANGED convergedAt

(* --------------------- DeployAgent.waitForDeployment ------------------- *)

\* the appName waitForDeployment was called with
WaitTarget(p) ==
  IF op[p] = "deploy" THEN AppName(params[p].repository) ELSE params[p].appName

\* status.readyReplicas as the deployment controller may report it at a read
ReadyValues == {Missing} \cup 0..MaxReady

\* a faulty variant: the clock reading is taken for the time waited
Elapsed_NoStart(p) == now

\* Date.now() - startTime
Elapsed(p) == now - startTime[p]

\* x || 0
OrZero(x) == IF x = Missing THEN 0 ELSE x

\* a faulty variant: the test for a positive replica count is missing
Converged_NoPositive(readyReplicas, replicas) ==
  OrZero(readyReplicas) = OrZero(replicas)

\* readyReplicas === replicas && replicas > 0
Converged(readyReplicas, replicas) ==
  /\ OrZero(readyReplicas) = OrZero(replicas)
  /\ OrZero(replicas) > 0

\* what a poll saw, as the object states it: the read failed, or the object
\* has readyReplicas equal to a positive spec.replicas, or it has not
Seen(res, readyReplicas, replicas) ==
  IF res # Ok THEN "failed"
  ELSE IF readyReplicas # Missing /\ readyReplicas = replicas /\ replicas > 0
  THEN "converged"
  ELSE "pending"

\* return true
WaitReturn(p) ==
  IF op[p] = "deploy"
  THEN /\ pc' = [pc EXCEPT ![p] = "resolve"]
       /\ UNCHANGED result
  ELSE /\ pc' = [pc EXCEPT ![p] = "idle"]
       /\ result' = [result EXCEPT ![p] = [status |-> "success", value |-> TRUE]]

\* a faulty variant: the catch block rethrows
PollFailed_Rethrow(p, res, answeredAt) ==
  /\ now' = answeredAt
  /\ Throw(p, ApiError(res))

\* the catch block of the loop: logger.warn, await this.sleep(5000)
PollFailed(p, res, answeredAt) ==
  /\ now' = answeredAt + PollIntervalMs
  /\ pc' = [pc EXCEPT ![p] = "waitLoop"]
  /\ UNCHANGED result

\* a faulty variant: the pause after an unconverged poll is twice as long
PollAnswered_LongPause(p, readyReplicas, replicas, answeredAt) ==
  IF Converged(readyReplicas, replicas)
  THEN /\ now' = answeredAt
       /\ WaitReturn(p)
  ELSE /\ now' = answeredAt + 2 * PollIntervalMs
       /\ pc' = [pc EXCEPT ![p] = "waitLoop"]
       /\ UNCHANGED result

\* the try block of the loop once the read has answered
PollAnswered(p, readyReplicas, replicas, answeredAt) ==
  IF Converged(readyReplicas, replicas)
  THEN /\ now' = answeredAt
       /\ WaitReturn(p)
  ELSE /\ now' = answeredAt + PollIntervalMs
       /\ pc' = [pc EXCEPT ![p] = "waitLoop"]
       /\ UNCHANGED result

\* what a read of a Deployment may observe. When the convergence time of a-s
\* is fixed, a read of a-s succeeds, sees readyReplicas equal to spec.replicas
\* when it is issued at or after that time, and sees them differ when it is
\* answered before it; any other read observes what the cluster pleases.
Observes(ns, name, res, readyReplicas, issuedAt, answeredAt) ==
  (convergedAt # Missing /\ name = Str_a_s /\ Exists(ns, "deployment", name)) =>
    /\ res = Ok
    /\ issuedAt >= convergedAt =>
         readyReplicas = live[Key(ns, "deployment", name)].spec.replicas
    /\ answeredAt < convergedAt =>
         readyReplicas # live[Key(ns, "deployment", name)].spec.replicas

\* one turn of while (Date.now() - startTime < timeoutMs) { ... }, or the
\* throw after the loop
WaitLoop(p) ==
  /\ pc[p] = "waitLoop"
  /\ IF Elapsed(p) < timeoutMs[p]
     THEN LET ns == params[p].namespace
              key == Key(ns, "deployment", WaitTarget(p))
          IN \E res \in NamedAnswers(ns, "deployment", WaitTarget(p)),
                lat \in Latencies, ready \in ReadyValues :
               /\ res # Ok => ready = Missing
               /\ Observes(ns, WaitTarget(p), res, ready, now, now + lat)
               /\ lastRead' = [lastRead EXCEPT ![p] =
                    Seen(res, ready, IF res = Ok THEN live[key].spec.replicas ELSE Missing)]
               /\ IF res = Ok
                  THEN PollAnswered(p, ready, live[key].spec.replicas, now + lat)
                  ELSE PollFailed(p, res, now + lat)
     ELSE /\ Throw(p, TimeoutError(WaitTarget(p), timeoutMs[p]))
          /\ UNCHANGED <<now, lastRead>>
  /\ UNCHANGED <<clusterVars, minted, op, params, deploymentId, stage,
                 deployedResources, startTime, timeoutMs, calls, historyVars, waitCalls>>
  /\ UNCHANGED <<lookups, rollbackVars, monitorVars>>
  /\ UNCHANGED convergedAt

(* ------------------------ DeployAgent.getServiceUrl -------------------- *)
\* An address is the sequence of the pieces its template literal joins.

\* the body of a Service read. The API server defaults spec.type to ClusterIP
\* and assigns spec.clusterIP when the descriptor leaves them out; the load
\* balancer's status is empty until the cluster reports one.
ServiceBody(object) ==
  [spec |-> [port |-> IF "port" \in DOMAIN object.spec THEN object.spec.port ELSE 0,
             type |-> IF "type" \in DOMAIN object.spec THEN object.spec.type ELSE "ClusterIP",
             clusterIP |-> IF "clusterIP" \in DOMAIN object.spec
                           THEN object.spec.clusterIP ELSE "10.0.0.1"],
   status |-> [ingress |-> IF "status" \in DOMAIN object THEN object.status ELSE <<>>]]

\* the answer of a read: its body when it resolved, its status code when it threw
Lookup(res, body) == IF res = Ok THEN [res |-> res, body |-> body] ELSE [res |-> res]

\* ingress.spec?.rules?.[0]?.host, "" when the ingress has no host rule
Host(ingress) == IF "host" \in DOMAIN ingress.spec THEN ingress.spec.host ELSE ""

\* ingress.spec.tls ? 'https' : 'http' (any array is truthy)
Protocol(ingress) == IF "tls" \in DOMAIN ingress.spec THEN "https" ELSE "http"

\* service.spec.ports?.[0]?.port || 80
Port(service) == IF service.spec.port = 0 THEN 80 ELSE service.spec.port

\* lb.hostname || lb.ip, as the template literal prints it
LbHost(lb) ==
  IF lb.hostname # "" THEN lb.hostname ELSE IF lb.ip # "" THEN lb.ip ELSE "undefined"

\* `${protocol}://${ingress.spec.rules[0].host}`
IngressUrl(ingress) == <<Protocol(ingress), "://", Host(ingress)>>

\* `http://${host}:${port}` of the first load-balancer ingress
LoadBalancerUrl(service) ==
  <<"http", "://", LbHost(service.status.ingress[1]), ":", ToString(Port(service))>>

\* `http://${clusterIP}:${port}`
ClusterIpUrl(service) ==
  <<"http", "://", service.spec.clusterIP, ":", ToString(Port(service))>>

\* `http://${appName}-service.${namespace}.svc.cluster.local`
ClusterLocalUrl(appName, namespace) ==
  <<"http", "://">> \o appName \o ServiceSuffix \o <<".", namespace, ".svc.cluster.local">>

\* a faulty variant: an ingress that resolved wins whether it has a host rule or not
IngressSatisfied_AnyIngress(lookup) == lookup.res = Ok

\* the ingress read resolved and if (ingress.spec?.rules?.[0]?.host)
IngressSatisfied(lookup) == lookup.res = Ok /\ Host(lookup.body) # ""

\* service.spec?.type === 'LoadBalancer' && service.status?.loadBalancer?.ingress?.[0]
LoadBalanced(service) ==
  service.spec.type = "LoadBalancer" /\ Len(service.status.ingress) > 0

\* clusterIP && clusterIP !== 'None'
HasClusterIp(service) == service.spec.clusterIP \notin {"", "None"}

\* a faulty variant: the cluster-internal address is tried before the load balancer
ServiceUrl_ClusterIpFirst(appName, namespace, service) ==
  IF HasClusterIp(service) THEN ClusterIpUrl(service)
  ELSE IF LoadBalanced(service) THEN LoadBalancerUrl(service)
  ELSE ClusterLocalUrl(appName, namespace)

\* the three returns after the service read resolved
ServiceUrl(appName, namespace, service) ==
  IF LoadBalanced(service) THEN LoadBalancerUrl(service)
  ELSE IF HasClusterIp(service) THEN ClusterIpUrl(service)
  ELSE ClusterLocalUrl(appName, namespace)

\* deploy: the return after getServiceUrl
ReturnDeploy(p, serviceUrl) ==
  /\ result' = [result EXCEPT ![p] =
       [status |-> "success", deployment_id |-> deploymentId[p],
        namespace |-> params[p].namespace, deployment_url |-> serviceUrl,
        deployed_resources |-> deployedResources[p], rollout_status |-> "completed"]]
  /\ returned' = returned \cup {deploymentId[p]}

\* getServiceUrl returns an address to its caller
ReturnUrl(p, serviceUrl) ==
  /\ pc' = [pc EXCEPT ![p] = "idle"]
  /\ IF op[p] = "deploy"
     THEN ReturnDeploy(p, serviceUrl)
     ELSE /\ result' = [result EXCEPT ![p] = [status |-> "success", value |-> serviceUrl]]
          /\ UNCHANGED returned

\* a faulty variant: the outer catch block rethrows
ServiceLookupFailed_Rethrow(p, res) ==
  /\ Throw(p, ApiError(res))
  /\ UNCHANGED returned

\* the outer catch block: logger.warn, return the cluster-local name
ServiceLookupFailed(p, res) ==
  ReturnUrl(p, ClusterLocalUrl(WaitTarget(p), params[p].namespace))

\* await readNamespacedIngress(`${appName}-ingress`, namespace), the test of its
\* host rule and the inner catch block
ResolveIngress(p) ==
  /\ pc[p] = "resolve"
  /\ LET ns == params[p].namespace
         name == WaitTarget(p) \o IngressSuffix
     IN \E res \in NamedAnswers(ns, "ingress", name) :
          LET lookup == Lookup(res, IF res = Ok THEN live[Key(ns, "ingress", name)] ELSE <<>>)
          IN /\ lookups' = [lookups EXCEPT ![p].ingress = lookup]
             /\ IF IngressSatisfied(lookup)
                THEN ReturnUrl(p, IngressUrl(lookup.body))
                ELSE /\ pc' = [pc EXCEPT ![p] = "resolveService"]
                     /\ UNCHANGED <<result, returned>>
  /\ UNCHANGED <<clusterVars, now, minted, op, params, deploymentId, stage,
                 deployedResources, waitVars, calls, applied, waitCalls>>
  /\ UNCHANGED <<rollbackVars, monitorVars>>
  /\ UNCHANGED convergedAt

\* await readNamespacedService(`${appName}-service`, namespace) and what follows it
ResolveService(p) ==
  /\ pc[p] = "resolveService"
  /\ LET ns == params[p].namespace
         name == WaitTarget(p) \o ServiceSuffix
     IN \E res \in NamedAnswers(ns, "service", name) :
          LET lookup == Lookup(res, IF res = Ok
                                    THEN ServiceBody(live[Key(ns, "service", name)])
                                    ELSE <<>>)
          IN /\ lookups' = [lookups EXCEPT ![p].service = lookup]
             /\ IF res = Ok
                THEN ReturnUrl(p, ServiceUrl(WaitTarget(p), ns, lookup.body))
                ELSE ServiceLookupFailed(p, res)
  /\ UNCHANGED <<clusterVars, now, minted, op, params, deploymentId, stage,
                 deployedResources, waitVars, calls, applied, waitCalls>>
  /\ UNCHANGED <<rollbackVars, monitorVars>>
  /\ UNCHANGED convergedAt

\* getServiceUrl(appName, namespace, environment), up to the ingress read
GetServiceUrl(p) ==
  /\ pc[p] = "idle"
  /\ \E appName \in {Str_a_s, Str_a_w}, ns \in Namespaces :
       params' = [params EXCEPT ![p] = [appName |-> appName, namespace |-> ns]]
  /\ op' = [op EXCEPT ![p] = "resolve"]
  /\ pc' = [pc EXCEPT ![p] = "resolve"]
  /\ lookups' = [lookups EXCEPT ![p] = NoLookups]
  /\ result' = [result EXCEPT ![p] = NoResult]
  /\ UNCHANGED <<clusterVars, now, minted, deploymentId, stage, deployedResources,
                 waitVars, calls, historyVars, waitCalls, rollbackVars, monitorVars>>
  /\ UNCHANGED convergedAt

\* the deadlines a direct caller passes
Timeouts == {2000, 5000, 10000, 12000}

\* waitForDeployment(appName, namespace, timeoutMs), up to the first loop test
WaitForDeployment(p) ==
  /\ pc[p] = "idle"
  /\ waitCalls < MaxWaitCalls
  /\ waitCalls' = waitCalls + 1
  /\ \E appName \in {Str_a_s, Str_a_w}, ns \in Namespaces, t \in Timeouts, clock \in StartClocks :
       /\ params' = [params EXCEPT ![p] = [appName |-> appName, namespace |-> ns]]
       /\ timeoutMs' = [timeoutMs EXCEPT ![p] = t]
       /\ now' = clock
       /\ startTime' = [startTime EXCEPT ![p] = clock]
  /\ op' = [op EXCEPT ![p] = "wait"]
  /\ pc' = [pc EXCEPT ![p] = "waitLoop"]
  /\ lastRead' = [lastRead EXCEPT ![p] = NoRead]
  /\ result' = [result EXCEPT ![p] = NoResult]
  /\ calls' = [calls EXCEPT ![p] = <<>>]
  /\ UNCHANGED <<clusterVars, minted, deploymentId, stage, deployedResources, historyVars>>
  /\ UNCHANGED <<lookups, rollbackVars, monitorVars>>
  /\ UNCHANGED convergedAt

(* --------------------------- specifications ---------------------------- *)

\* deploy invocations, one at a time
Next ==
  \/ Deploy(1)
  \/ ReadNamespace(1)
  \/ CreateNamespace(1)
  \/ CreateResource(1)
  \/ ReplaceResource(1)
  \/ WaitLoop(1)
  \/ ResolveIngress(1)
  \/ ResolveService(1)

Spec == Init /\ [][Next]_vars

\* the Deployment a-s as an earlier deploy left it, with r replicas
LeftDeployment(r) ==
  Key("staging", "deployment", Str_a_s) :>
    NewObject(Stamp(DeploymentDesc(Str_a_s, NoLabels, r), uuidv4(1)))

\* a cluster an earlier deploy left, and no invocation running
InitWait ==
  /\ nsExists = {"staging"}
  /\ live \in {<<>>} \cup {LeftDeployment(r) : r \in 0..2}
  /\ now = 0
  /\ minted = 1
  /\ pc = [p \in Procs |-> "idle"]
  /\ op = [p \in Procs |-> "none"]
  /\ params = [p \in Procs |-> NoParams]
  /\ deploymentId = [p \in Procs |-> ""]
  /\ stage = [p \in Procs |-> 0]
  /\ deployedResources = [p \in Procs |-> <<>>]
  /\ startTime = [p \in Procs |-> 0]
  /\ timeoutMs = [p \in Procs |-> 0]
  /\ lastRead = [p \in Procs |-> NoRead]
  /\ result = [p \in Procs |-> NoResult]
  /\ calls = [p \in Procs |-> <<>>]
  /\ applied = [ns \in Namespaces |-> [k \in Kinds |-> <<>>]]
  /\ returned = {}
  /\ waitCalls = 0
  /\ lookups = [p \in Procs |-> NoLookups]
  /\ rollbackRequests = <<>>
  /\ items = <<>>
  /\ iterations = 0
  /\ iteration = 0
  /\ results = <<>>
  /\ pauses = 0
  /\ convergedAt = Missing

\* the times at which the Deployment a-s may converge for good
ConvergenceTimes == {0, 1000, 2000, 4000, 5000, 9000, 10000}

\* the Deployment a-s, of one or two replicas, converges at a fixed time and
\* stays converged, and its reads succeed
InitConverge ==
  /\ nsExists = {"staging"}
  /\ live \in {LeftDeployment(r) : r \in 1..2}
  /\ now = 0
  /\ minted = 1
  /\ pc = [p \in Procs |-> "idle"]
  /\ op = [p \in Procs |-> "none"]
  /\ params = [p \in Procs |-> NoParams]
  /\ deploymentId = [p \in Procs |-> ""]
  /\ stage = [p \in Procs |-> 0]
  /\ deployedResources = [p \in Procs |-> <<>>]
  /\ startTime = [p \in Procs |-> 0]
  /\ timeoutMs = [p \in Procs |-> 0]
  /\ lastRead = [p \in Procs |-> NoRead]
  /\ result = [p \in Procs |-> NoResult]
  /\ calls = [p \in Procs |-> <<>>]
  /\ applied = [ns \in Namespaces |-> [k \in Kinds |-> <<>>]]
  /\ returned = {}
  /\ waitCalls = 0
  /\ lookups = [p \in Procs |-> NoLookups]
  /\ rollbackRequests = <<>>
  /\ items = <<>>
  /\ iterations = 0
  /\ iteration = 0
  /\ results = <<>>
  /\ pauses = 0
  /\ convergedAt \in ConvergenceTimes

\* direct calls of waitForDeployment, one at a time
NextWait ==
  \/ WaitForDeployment(1)
  \/ WaitLoop(1)

SpecWait == InitWait /\ [][NextWait]_vars

\* direct calls of waitForDeployment for a Deployment that converges for good
SpecConverge == InitConverge /\ [][NextWait]_vars

\* the event loop resumes the wait whenever its read or its timer has completed
SpecWaitFair == SpecWait /\ WF_vars(WaitLoop(1))

(* ------------------ specification: address resolution ----------------- *)

\* the Ingress objects a cluster may hold: with a host rule, with TLS, without
\* a host rule
IngressObjects ==
  { [labels |-> NoLabels, spec |-> [host |-> "a.example.com"]],
    [labels |-> NoLabels, spec |-> [host |-> "a.example.com", tls |-> <<"a-tls">>]],
    [labels |-> NoLabels, spec |-> [tls |-> <<"a-tls">>]],
    [labels |-> NoLabels, spec |-> [backend |-> "a-s-service"]] }

\* the Service objects a cluster may hold: as a rollout created one, or with
\* the type, the cluster address and the load-balancer status the cluster reports
ServiceObjects ==
  { [labels |-> NoLabels, spec |-> [port |-> 80]] } \cup
  [labels : {NoLabels},
   spec : [port : {0, 8080}, type : {"ClusterIP", "LoadBalancer"},
           clusterIP : {"", "None", "10.0.0.1"}],
   status : { <<>>,
              <<[hostname |-> "b.example.com", ip |-> ""]>>,
              <<[hostname |-> "", ip |-> "192.0.2.1"]>>,
              <<[hostname |-> "", ip |-> ""]>> }]

\* the clusters address resolution may meet for the application a-s
ResolveClusters ==
  LET ingresses == {<<>>} \cup
        {Key("staging", "ingress", Str_a_s \o IngressSuffix) :> o : o \in IngressObjects}
      services == {<<>>} \cup
        {Key("staging", "service", Str_a_s \o ServiceSuffix) :> o : o \in ServiceObjects}
  IN {i @@ sv : i \in ingresses, sv \in services}

InitResolve ==
  /\ nsExists = {"staging"}
  /\ live \in ResolveClusters
  /\ now = 0
  /\ minted = 0
  /\ pc = [p \in Procs |-> "idle"]
  /\ op = [p \in Procs |-> "none"]
  /\ params = [p \in Procs |-> NoParams]
  /\ deploymentId = [p \in Procs |-> ""]
  /\ stage = [p \in Procs |-> 0]
  /\ deployedResources = [p \in Procs |-> <<>>]
  /\ startTime = [p \in Procs |-> 0]
  /\ timeoutMs = [p \in Procs |-> 0]
  /\ lastRead = [p \in Procs |-> NoRead]
  /\ result = [p \in Procs |-> NoResult]
  /\ calls = [p \in Procs |-> <<>>]
  /\ applied = [ns \in Namespaces |-> [k \in Kinds |-> <<>>]]
  /\ returned = {}
  /\ waitCalls = 0
  /\ lookups = [p \in Procs |-> NoLookups]
  /\ rollbackRequests = <<>>
  /\ items = <<>>
  /\ iterations = 0
  /\ iteration = 0
  /\ results = <<>>
  /\ pauses = 0
  /\ convergedAt = Missing

\* direct calls of getServiceUrl, one at a time
NextResolve ==
  \/ GetServiceUrl(1)
  \/ ResolveIngress(1)
  \/ ResolveService(1)

SpecResolve == InitResolve /\ [][NextResolve]_vars

(* ------------------------------ properties ----------------------------- *)

Last(seq) == seq[Len(seq)]

\* an invocation answered one more call in this step
Answered(p) == Len(calls'[p]) = Len(calls[p]) + 1

AllIdle == \A p \in Procs : pc[p] = "idle"

\* the descriptor of the given kind in the invocation's kubernetes_config
ConfigDesc(p, kind) == params[p].kubernetes_config[kind]

\* the two latest applies of a kind submitted the same descriptor, and the
\* first of them found no such object and no failing cluster API
AppliedTwice(ns, kind) ==
  /\ Len(applied[ns][kind]) = 2
  /\ ~applied[ns][kind][1].found
  /\ ~applied[ns][kind][1].faulted
  /\ applied[ns][kind][1].descriptor = applied[ns][kind][2].descriptor

\* C1: when a descriptor is applied to a cluster that lacks the object and then
\* applied again, the first apply reports created and the second reports
\* updated (Deployment, Ingress) or exists (Service); the second never reports
\* created, and it raises an error only when the cluster API itself failed.
C1_ApplyTwice ==
  \A ns \in Namespaces, kind \in Kinds :
    AppliedTwice(ns, kind) =>
      LET second == applied[ns][kind][2] IN
      /\ applied[ns][kind][1].status = "created"
      /\ second.status # "created"
      /\ ~second.faulted =>
           second.status = (IF kind = "service" THEN "exists" ELSE "updated")

C1_Witness ==
  /\ AppliedTwice("staging", "deployment")
  /\ applied["staging"]["deployment"][2].status = "updated"
  /\ AppliedTwice("staging", "service")
  /\ applied["staging"]["service"][2].status = "exists"
  /\ AppliedTwice("staging", "ingress")
  /\ applied["staging"]["ingress"][2].status = "updated"

\* the create of the invocation's current descriptor was just answered with
\* the conflict condition
ConflictAnswered(p, kind) ==
  /\ pc[p] = "create"
  /\ ApplyOrder[stage[p]] = kind
  /\ Answered(p)
  /\ Last(calls'[p]) = [op |-> "create", kind |-> kind, res |-> Conflict]

\* the replace of the invocation's current descriptor was just answered with success
ReplaceAnswered(p, kind) ==
  /\ pc[p] = "replace"
  /\ ApplyOrder[stage[p]] = kind
  /\ Answered(p)
  /\ Last(calls'[p]) = [op |-> "replace", kind |-> kind, res |-> Ok]

C4_Step(p) ==
  LET ns == params[p].namespace IN
  /\ ConflictAnswered(p, "service") =>
       /\ live' = live
       /\ pc'[p] # "replace"
       /\ Len(deployedResources'[p]) = Len(deployedResources[p]) + 1
       /\ Last(deployedResources'[p]).status = "exists"
  /\ \A kind \in {"deployment", "ingress"} :
       /\ ConflictAnswered(p, kind) => live' = live /\ pc'[p] = "replace"
       /\ ReplaceAnswered(p, kind) =>
            LET desc == ConfigDesc(p, kind)
                obj == live'[Key(ns, kind, desc.metadata.name)]
            IN /\ obj.spec = desc.spec
               /\ DOMAIN obj.labels = DOMAIN desc.metadata.labels \cup {"deployment-id", "managed-by"}
               /\ \A k \in DOMAIN desc.metadata.labels \ {"deployment-id", "managed-by"} :
                    obj.labels[k] = desc.metadata.labels[k]
               /\ obj.labels["deployment-id"] = deploymentId[p]
               /\ Last(deployedResources'[p]).status = "updated"
  /\ \A i \in 1..Len(calls'[p]) :
       ~(calls'[p][i].op = "replace" /\ calls'[p][i].kind = "service")

\* C4: a create conflict leaves a Service untouched (no replace is issued, the
\* live object keeps its spec and labels, the outcome is exists), while for a
\* Deployment or an Ingress a replace follows that overwrites the live object
\* with the submitted descriptor and the outcome is updated.
C4_ConflictHandling == [][\A p \in Procs : C4_Step(p)]_vars

\* a Service create met a conflict: the live Service still carries the
\* correlation label of the earlier invocation, and the outcome is exists
C4_Witness ==
  /\ Len(calls[1]) > 0
  /\ Last(calls[1]) = [op |-> "create", kind |-> "service", res |-> Conflict]
  /\ Last(deployedResources[1]).status = "exists"
  /\ LET desc == ConfigDesc(1, "service")
         obj == live[Key("staging", "service", desc.metadata.name)]
     IN /\ obj.labels["deployment-id"] # deploymentId[1]
        /\ obj.spec # desc.spec
  /\ deployedResources[1][1].status = "updated"

\* a call that failed, and not with the one condition its catch block handles
Fatal(call) ==
  /\ call.res # Ok
  /\ ~(call.op = "create" /\ call.kind \in Kinds /\ call.res = Conflict)
  /\ ~(call.op = "read" /\ call.kind = "namespace" /\ call.res = NotFound)

\* C5: a cluster-API failure other than the create conflict ends the deploy
\* with that same error: the failed call is the last call issued, and the
\* invocation returns no result and no correlation identifier.
C5_FailurePropagates ==
  \A p \in Procs : \A i \in 1..Len(calls[p]) :
    Fatal(calls[p][i]) =>
      /\ i = Len(calls[p])
      /\ pc[p] = "idle"
      /\ result[p] = [status |-> "error", error |-> ApiError(calls[p][i].res)]
      /\ deploymentId[p] \notin returned

\* the replace that followed a Deployment conflict failed, with a service
\* descriptor still to apply
C5_Witness ==
  /\ Len(calls[1]) > 0
  /\ Last(calls[1]) = [op |-> "replace", kind |-> "deployment", res |-> 500]
  /\ result[1] = [status |-> "error", error |-> ApiError(500)]
  /\ Present(ConfigDesc(1, "service"))

\* the place of a kind in the order deployment, service, ingress
KindIndex(kind) ==
  CASE kind = "deployment" -> 1 [] kind = "service" -> 2 [] kind = "ingress" -> 3

IsApplyCall(call) == call.kind \in Kinds

\* the kinds kubernetes_config has a descriptor for, that come before kind
PresentBefore(p, kind) ==
  {k \in Kinds : Present(ConfigDesc(p, k)) /\ KindIndex(k) < KindIndex(kind)}

HasOutcome(p, kind) ==
  \E i \in 1..Len(deployedResources[p]) : deployedResources[p][i].type = kind

\* C6: within one rollout the calls go deployment, service, ingress; a
\* resource's create is issued only when every earlier descriptor has its
\* outcome; absent descriptors get no call; and the outcome sequence returned
\* holds one record per descriptor kubernetes_config has, in that order.
C6_ApplyOrder ==
  \A p \in Procs :
    LET applyCalls == SelectSeq(calls[p], IsApplyCall)
        outcomes == deployedResources[p]
    IN /\ \A i, j \in 1..Len(applyCalls) :
            i < j => KindIndex(applyCalls[i].kind) <= KindIndex(applyCalls[j].kind)
       /\ \A i \in 1..Len(applyCalls) :
            /\ Present(ConfigDesc(p, applyCalls[i].kind))
            /\ \A k \in PresentBefore(p, applyCalls[i].kind) : HasOutcome(p, k)
       /\ pc[p] \in {"create", "replace"} =>
            \A k \in PresentBefore(p, ApplyOrder[stage[p]]) : HasOutcome(p, k)
       /\ \A i, j \in 1..Len(outcomes) :
            i < j => KindIndex(outcomes[i].type) < KindIndex(outcomes[j].type)
       /\ \A i \in 1..Len(outcomes) :
            /\ Present(ConfigDesc(p, outcomes[i].type))
            /\ outcomes[i].name = ConfigDesc(p, outcomes[i].type).metadata.name
       /\ (op[p] = "deploy" /\ result[p].status = "success") =>
            /\ result[p].deployed_resources = outcomes
            /\ \A k \in Kinds : Present(ConfigDesc(p, k)) <=> HasOutcome(p, k)

\* a deploy returned the outcomes of a deployment and a service, its
\* kubernetes_config having no ingress
C6_Witness ==
  /\ op[1] = "deploy"
  /\ result[1].status = "success"
  /\ Len(result[1].deployed_resources) = 2
  /\ result[1].deployed_resources[1].type = "deployment"
  /\ result[1].deployed_resources[2].type = "service"
  /\ ~Present(ConfigDesc(1, "ingress"))

\* the live Deployments of a namespace that carry a correlation identifier
Carriers(ns, id) ==
  {key \in DOMAIN live :
     /\ key[1] = ns
     /\ key[2] = "deployment"
     /\ live[key].labels["deployment-id"] = id}

\* C7 as stated: with no deploy in progress, every correlation identifier a
\* deploy returned is carried by exactly one live Deployment of the namespace.
C7_Original ==
  AllIdle =>
    \A ns \in Namespaces, id \in returned : Cardinality(Carriers(ns, id)) = 1

\* the latest deploy returned, and its kubernetes_config had a deployment descriptor
LatestReturned(p) ==
  /\ op[p] = "deploy"
  /\ result[p].status = "success"
  /\ Present(ConfigDesc(p, "deployment"))

\* C7 amended: with no deploy in progress, every correlation identifier a
\* deploy returned is carried by at most one live Deployment of the namespace,
\* and the identifier of the latest deploy, when that deploy submitted a
\* deployment descriptor, by exactly the Deployment the descriptor names.
C7_AtMostOneCarrier ==
  AllIdle =>
    /\ \A ns \in Namespaces, id \in returned : Cardinality(Carriers(ns, id)) <= 1
    /\ \A p \in Procs :
         LatestReturned(p) =>
           Carriers(params[p].namespace, result[p].deployment_id) =
             {Key(params[p].namespace, "deployment",
                  ConfigDesc(p, "deployment").metadata.name)}

\* two deploys returned; the Deployment the first one labelled now carries the
\* identifier of the second, and nothing carries the first identifier
C7_Witness ==
  /\ AllIdle
  /\ returned = {uuidv4(1), uuidv4(2)}
  /\ LatestReturned(1)
  /\ Carriers("staging", uuidv4(1)) = {}
  /\ Cardinality(Carriers("staging", uuidv4(2))) = 1

\* C8: every resource a rollout created or replaced carries, in the live
\* cluster, deployment-id equal to the invocation's correlation identifier and
\* managed-by equal to the fixed value, and every other label of the submitted
\* descriptor; all resources of one invocation carry the same identifier.
C8_Stamped ==
  \A p \in Procs : \A i \in 1..Len(deployedResources[p]) :
    LET out == deployedResources[p][i]
        desc == ConfigDesc(p, out.type)
        key == Key(params[p].namespace, out.type, out.name)
    IN out.status \in {"created", "updated"} =>
         /\ key \in DOMAIN live
         /\ live[key].labels["deployment-id"] = deploymentId[p]
         /\ live[key].labels["managed-by"] = "mcp-devops-server"
         /\ \A k \in DOMAIN desc.metadata.labels \ {"deployment-id", "managed-by"} :
              /\ k \in DOMAIN live[key].labels
              /\ live[key].labels[k] = desc.metadata.labels[k]

\* a rollout stamped two resources, created or replaced, whose descriptors came
\* with a deployment-id label of their own and with another label
C8_Witness ==
  /\ Len(deployedResources[1]) = 2
  /\ deployedResources[1][1].status = "updated"
  /\ deployedResources[1][2].status = "created"
  /\ LET desc == ConfigDesc(1, "deployment")
         obj == live[Key("staging", "deployment", desc.metadata.name)]
     IN /\ "deployment-id" \in DOMAIN desc.metadata.labels
        /\ desc.metadata.labels["deployment-id"] # deploymentId[1]
        /\ obj.labels["tier"] = "web"
        /\ obj.labels["deployment-id"] = deploymentId[1]

\* the calls ensureNamespace made in the invocation
IsNamespaceCall(call) == call.kind = "namespace"

C9_State(p) ==
  LET nsCalls == SelectSeq(calls[p], IsNamespaceCall) IN
  /\ \A i \in 1..Len(nsCalls) :
       nsCalls[i].op = "create" =>
         /\ i = 2
         /\ nsCalls[1] = [op |-> "read", kind |-> "namespace", res |-> NotFound]
         /\ nsCalls[i].res # Conflict
  /\ (Len(nsCalls) > 0 /\ nsCalls[1].res \notin {Ok, NotFound}) =>
       /\ Len(calls[p]) = 1
       /\ result[p] = [status |-> "error", error |-> ApiError(nsCalls[1].res)]
  /\ (op[p] = "deploy" /\ pc[p] \in {"create", "replace", "waitLoop", "resolve", "resolveService"}) =>
       params[p].namespace \in nsExists
  /\ (op[p] = "deploy" /\ result[p].status = "success") =>
       params[p].namespace \in nsExists

C9_Step(p) ==
  (Answered(p) /\ Last(calls'[p]).kind = "namespace") =>
    /\ Last(calls'[p]).op = "create" => params[p].namespace \notin nsExists
    /\ Last(calls'[p]).op = "read" => nsExists' = nsExists
    /\ nsExists \subseteq nsExists'
    /\ live' = live

\* C9: ensureNamespace issues a create only after the read answered not
\* found; a read that succeeds is followed by no mutation; any other read
\* failure ends the invocation with that error and no create; once ensure
\* has returned the namespace exists, so that a later ensure finds it, does
\* not create it again and does not fail on a conflict.
C9_EnsureNamespace ==
  /\ [](\A p \in Procs : C9_State(p))
  /\ [][\A p \in Procs : C9_Step(p)]_vars

\* the second deploy: ensure read the namespace the first deploy's ensure
\* created, and went on to the rollout without a create
C9_Witness ==
  /\ minted = 2
  /\ "staging" \in nsExists
  /\ Len(calls[1]) = 2
  /\ calls[1][1] = [op |-> "read", kind |-> "namespace", res |-> Ok]
  /\ calls[1][2].kind = "deployment"

\* waitForDeployment returned true
WaitSucceeded(p) ==
  \/ op[p] = "wait" /\ result[p].status = "success"
  \/ op[p] = "deploy" /\ (pc[p] \in {"resolve", "resolveService"} \/ result[p].status = "success")

\* C2: the readiness wait returns successfully exactly when its latest poll
\* read an object whose readyReplicas is present and equal to a positive
\* spec.replicas: a poll that saw anything else (desired 0, readyReplicas
\* missing or different, a failed read) never ends it with success, and a
\* poll that saw convergence always does.
C2_ReadyIffConverged ==
  \A p \in Procs :
    /\ WaitSucceeded(p) => lastRead[p] = "converged"
    /\ lastRead[p] = "converged" => WaitSucceeded(p)

\* a direct wait returned true after at least one poll interval of waiting
C2_Witness ==
  /\ op[1] = "wait"
  /\ result[1] = [status |-> "success", value |-> TRUE]
  /\ lastRead[1] = "converged"
  /\ now - startTime[1] >= PollIntervalMs

\* the time waited, by the clock
Waited(p) == now - startTime[p]

\* the wait ended with its deadline error
TimedOut(p) ==
  /\ op[p] = "wait"
  /\ result[p].status = "error"
  /\ result[p].error = TimeoutError(params[p].appName, timeoutMs[p])

\* C3 as stated: the deadline error comes at about the deadline, later than
\* it by less than the deadline itself (well before 4000 ms for 2000 ms).
C3_Original ==
  \A p \in Procs : TimedOut(p) => Waited(p) < 2 * timeoutMs[p]

\* C3 amended: a wait that never sees convergence ends, with the deadline
\* error; the error is raised at the first loop test at or after the deadline,
\* never before the deadline has elapsed since the wait's own start and less
\* than one poll interval plus one read's latency after it.
C3_DeadlineExpiry ==
  /\ [](\A p \in Procs :
          /\ TimedOut(p) => Waited(p) >= timeoutMs[p]
          /\ (TimedOut(p) \/ pc[p] = "waitLoop") =>
               Waited(p) < timeoutMs[p] + PollIntervalMs + MaxLatency)
  /\ \A p \in {1} : (pc[p] = "waitLoop") ~> (pc[p] = "idle")

\* a wait with a deadline of 2000 ms, started at clock 5000, raised the
\* deadline error 5000 ms after its start
C3_Witness ==
  /\ TimedOut(1)
  /\ timeoutMs[1] = 2000
  /\ startTime[1] = 5000
  /\ Waited(1) = PollIntervalMs

\* a poll of the running wait just failed
PollJustFailed(p) ==
  /\ pc[p] = "waitLoop"
  /\ Waited(p) < timeoutMs[p]
  /\ lastRead'[p] = "failed"

\* C10: a failed read never ends the wait: after it the wait pauses one poll
\* interval and is back at the loop test, and a wait ends in an error only
\* with the deadline error, once the deadline has elapsed.
C10_ReadErrorsTransient ==
  /\ [](\A p \in Procs :
          (op[p] = "wait" /\ result[p].status = "error") =>
            /\ result[p].error.kind = "timeout"
            /\ Waited(p) >= timeoutMs[p])
  /\ [][\A p \in Procs :
          PollJustFailed(p) =>
            /\ pc'[p] = "waitLoop"
            /\ result'[p] = result[p]
            /\ \E lat \in Latencies : now' = now + lat + PollIntervalMs]_vars

\* after a failed read the wait is back at the loop test, with time left
C10_Witness ==
  /\ op[1] = "wait"
  /\ pc[1] = "waitLoop"
  /\ lastRead[1] = "failed"
  /\ Waited(1) >= PollIntervalMs
  /\ Waited(1) < timeoutMs[1]

(* ------------------------- properties: deploy -------------------------- *)

\* the descriptors kubernetes_config has
PresentKinds(p) == {k \in Kinds : Present(params[p].kubernetes_config[k])}

\* the invocation's result is the readiness deadline error
DeadlineExpired(p) ==
  /\ op[p] = "deploy"
  /\ result[p].status = "error"
  /\ result[p].error.kind = "timeout"

\* what a step of deploy may do, phase by phase
C11_Step(p) ==
  /\ (pc[p] \in {"readNamespace", "createNamespace"} /\ pc'[p] \in {"create", "waitLoop"}) =>
       /\ Last(calls'[p]).kind = "namespace"
       /\ Last(calls'[p]).res = Ok
  /\ (pc'[p] = "create" /\ pc[p] \notin {"readNamespace", "createNamespace"}) =>
       /\ pc[p] \in {"create", "replace"}
       /\ Len(deployedResources'[p]) = Len(deployedResources[p]) + 1
  /\ (op'[p] = "deploy" /\ pc'[p] = "waitLoop" /\ pc[p] # "waitLoop") =>
       /\ pc[p] \in {"readNamespace", "createNamespace", "create", "replace"}
       /\ Len(deployedResources'[p]) = Cardinality(PresentKinds(p))
       /\ lastRead'[p] = NoRead
  /\ (pc'[p] = "resolve" /\ pc[p] # "resolve" /\ op'[p] = "deploy") =>
       /\ pc[p] = "waitLoop"
       /\ lastRead'[p] = "converged"
  /\ (pc'[p] = "resolveService" /\ pc[p] # "resolveService") => pc[p] = "resolve"
  /\ (op'[p] = "deploy" /\ result'[p].status = "success" /\ result[p].status # "success") =>
       /\ pc[p] \in {"resolve", "resolveService"}
       /\ lookups'[p].ingress.res # 0
       /\ Len(result'[p].deployment_url) > 0
  /\ (DeadlineExpired(p)' /\ ~DeadlineExpired(p)) =>
       /\ pc[p] = "waitLoop" /\ pc'[p] = "idle"
       /\ Elapsed(p) >= DefaultTimeoutMs
       /\ UNCHANGED <<clusterVars, rollbackVars, calls, lookups, returned, deployedResources>>

\* what holds once the readiness deadline has expired
C11_State(p) ==
  DeadlineExpired(p) =>
    /\ pc[p] = "idle"
    /\ DOMAIN result[p] = {"status", "error"}
    /\ deploymentId[p] \notin returned
    /\ lookups[p] = NoLookups
    /\ rollbackRequests = <<>>
    /\ \A k \in 1..Len(deployedResources[p]) :
         Exists(params[p].namespace, deployedResources[p][k].type, deployedResources[p][k].name)

\* C11: deploy runs namespace ensure, rollout, readiness wait and address
\* resolution in this order, each only after the one before it succeeded; when
\* the readiness deadline expires deploy ends with that error and no success
\* result, resolves no address and issues no further cluster call, and the
\* resources it applied stay in place.
C11_DeployOrder == [](C11_State(1)) /\ [][C11_Step(1)]_vars

\* a deploy created a Deployment that never became ready and failed with the
\* deadline error
C11_Witness ==
  /\ DeadlineExpired(1)
  /\ Len(deployedResources[1]) > 0
  /\ deployedResources[1][1].status = "created"

(* -------------------- properties: address resolution ------------------- *)

\* getServiceUrl has returned to a direct caller
Resolved(p) == op[p] = "resolve" /\ pc[p] = "idle" /\ result[p].status # "none"

\* the tiers as the answers of the two lookups state them
IngressTier(l) ==
  /\ l.ingress.res = Ok
  /\ "host" \in DOMAIN l.ingress.body.spec
  /\ l.ingress.body.spec.host # ""

LoadBalancerTier(l) ==
  /\ l.service.res = Ok
  /\ l.service.body.spec.type = "LoadBalancer"
  /\ l.service.body.status.ingress # <<>>

ClusterIpTier(l) ==
  /\ l.service.res = Ok
  /\ l.service.body.spec.clusterIP \notin {"", "None"}

PortOf(l) == IF l.service.body.spec.port = 0 THEN "80" ELSE ToString(l.service.body.spec.port)

\* the address each tier stands for
IngressAddress(l) ==
  <<IF "tls" \in DOMAIN l.ingress.body.spec THEN "https" ELSE "http", "://",
    l.ingress.body.spec.host>>

LoadBalancerAddress(l) ==
  LET lb == l.service.body.status.ingress[1]
  IN <<"http", "://",
       IF lb.hostname # "" THEN lb.hostname ELSE IF lb.ip # "" THEN lb.ip ELSE "undefined",
       ":", PortOf(l)>>

ClusterIpAddress(l) == <<"http", "://", l.service.body.spec.clusterIP, ":", PortOf(l)>>

SynthesizedAddress(p) ==
  <<"http", "://">> \o params[p].appName \o
  <<"-", "s", "e", "r", "v", "i", "c", "e", ".", params[p].namespace, ".svc.cluster.local">>

\* C12: the address returned is that of the first satisfied tier in the order
\* ingress host, load-balanced service endpoint, service cluster address,
\* synthesized cluster-local name: an ingress found with a host rule wins
\* whatever the service is (https when it has TLS, else http), and a lower
\* tier's address is returned only when every higher tier is unsatisfied.
C12_TierOrder ==
  \A p \in Procs :
    Resolved(p) =>
      /\ result[p].status = "success"
      /\ result[p].value =
           IF IngressTier(lookups[p]) THEN IngressAddress(lookups[p])
           ELSE IF LoadBalancerTier(lookups[p]) THEN LoadBalancerAddress(lookups[p])
           ELSE IF ClusterIpTier(lookups[p]) THEN ClusterIpAddress(lookups[p])
           ELSE SynthesizedAddress(p)
      /\ IngressTier(lookups[p]) => lookups[p].service = NoLookup

\* a load-balanced service with a cluster address and no ingress host rule:
\* the load balancer's address is returned
C12_Witness ==
  /\ Resolved(1)
  /\ ~IngressTier(lookups[1])
  /\ LoadBalancerTier(lookups[1])
  /\ ClusterIpTier(lookups[1])
  /\ result[1].value = <<"http", "://", "b.example.com", ":", "8080">>

\* what a step of getServiceUrl may do
C13_Step(p) ==
  /\ (pc[p] \in {"resolve", "resolveService"}) => result'[p].status # "error"
  /\ (pc[p] = "resolve" /\ pc'[p] # "resolve" /\ lookups'[p].ingress.res # Ok) =>
       pc'[p] = "resolveService"

\* what holds once getServiceUrl has returned
C13_State(p) ==
  Resolved(p) =>
    /\ result[p].status = "success"
    /\ Len(result[p].value) > 0
    /\ \A k \in 1..Len(result[p].value) : result[p].value[k] # ""
    /\ lookups[p].ingress.res # Ok => lookups[p].service.res # 0
    /\ (lookups[p].ingress.res # Ok /\ LoadBalancerTier(lookups[p])) =>
         result[p].value = LoadBalancerAddress(lookups[p])
    /\ (lookups[p].ingress.res # Ok /\ lookups[p].service.res # Ok) =>
         result[p].value = SynthesizedAddress(p)

\* C13: address resolution never raises and returns a non-empty address for
\* every appName and every combination of lookup outcomes (found, not found,
\* other error); a failed ingress lookup still lets the service tiers be tried,
\* and when both lookups fail the address is
\* http://{appName}-service.{namespace}.svc.cluster.local.
C13_AlwaysAnAddress == [](C13_State(1)) /\ [][C13_Step(1)]_vars

\* both lookups failed with an unclassified error, and the synthesized address
\* of a-s in staging was returned
C13_Witness ==
  /\ Resolved(1)
  /\ lookups[1].ingress.res \in Unclassified
  /\ lookups[1].service.res \in Unclassified
  /\ result[1].value =
       <<"http", "://", "a", "-", "s", "-", "s", "e", "r", "v", "i", "c", "e",
         ".", "staging", ".svc.cluster.local">>

(* ------------------------- DeployAgent.rollback ------------------------ *)

\* rollbacks the cluster accepts per behaviour
MaxRollbacks == 2

\* the Deployments of a namespace the selector deployment-id=<id> matches
Matching(ns, id) ==
  {key \in DOMAIN live :
     /\ key[1] = ns
     /\ key[2] = "deployment"
     /\ "deployment-id" \in DOMAIN live[key].labels
     /\ live[key].labels["deployment-id"] = id}

\* the orders in which a list call may return a set of objects
Orderings(keys) ==
  {seq \in [1..Cardinality(keys) -> keys] : \A k \in keys : \E n \in DOMAIN seq : seq[n] = k}

\* an item of deployments.items
Item(key) == [metadata |-> [name |-> key[3], labels |-> live[key].labels]]

\* what the cluster may answer to listNamespacedDeployment
ListAnswers == Unclassified \cup {Ok}

\* new Error(`No deployment found with ID ${deploymentId}`)
NoDeploymentFound(id) == [kind |-> "notFound", deploymentId |-> id]

\* a faulty variant: a rollback that matches nothing reports success
NoMatch_Silent(p) ==
  /\ pc' = [pc EXCEPT ![p] = "idle"]
  /\ result' = [result EXCEPT ![p] = [status |-> "success", message |-> <<>>]]

\* if (deployments.items.length === 0) throw ...
NoMatch(p) == Throw(p, NoDeploymentFound(params[p].deploymentId))

\* rollback(deploymentId, namespace), up to the list call
Rollback(p) ==
  /\ pc[p] = "idle"
  /\ Len(rollbackRequests) < MaxRollbacks
  /\ \E id \in {uuidv4(1), uuidv4(2), uuidv4(3)}, ns \in Namespaces :
       params' = [params EXCEPT ![p] = [deploymentId |-> id, namespace |-> ns]]
  /\ op' = [op EXCEPT ![p] = "rollback"]
  /\ pc' = [pc EXCEPT ![p] = "list"]
  /\ result' = [result EXCEPT ![p] = NoResult]
  /\ calls' = [calls EXCEPT ![p] = <<>>]
  /\ items' = <<>>
  /\ UNCHANGED <<clusterVars, now, minted, deploymentId, stage, deployedResources,
                 waitVars, historyVars, waitCalls, lookups, rollbackRequests, monitorVars>>
  /\ UNCHANGED convergedAt

\* await listNamespacedDeployment(namespace, ..., `deployment-id=${deploymentId}`)
\* and the test of the list's length
ListForRollback(p) ==
  /\ pc[p] = "list"
  /\ op[p] = "rollback"
  /\ \E res \in ListAnswers :
       /\ calls' = [calls EXCEPT ![p] = Logged(p, "list", "deployment", res)]
       /\ IF res # Ok
          THEN Throw(p, ApiError(res)) /\ UNCHANGED items
          ELSE \E listing \in Orderings(Matching(params[p].namespace, params[p].deploymentId)) :
                 /\ items' = [n \in DOMAIN listing |-> Item(listing[n])]
                 /\ IF Len(listing) = 0
                    THEN NoMatch(p)
                    ELSE /\ pc' = [pc EXCEPT ![p] = "rollback"]
                         /\ UNCHANGED result
  /\ UNCHANGED <<clusterVars, now, minted, op, params, deploymentId, stage,
                 deployedResources, waitVars, historyVars, waitCalls, lookups,
                 rollbackRequests, monitorVars>>
  /\ UNCHANGED convergedAt

\* `Deployment ${deployment.metadata.name} rolled back successfully`
RolledBack(name) == <<"Deployment ">> \o name \o <<" rolled back successfully">>

\* a faulty variant: the last Deployment of the list is rolled back
FirstItem_Last(list) == list[Len(list)]

\* const deployment = deployments.items[0]
FirstItem(list) == list[1]

\* await createNamespacedDeploymentRollback(name, namespace, { name }) and the return
RollbackDeployment(p) ==
  /\ pc[p] = "rollback"
  /\ LET deployment == FirstItem(items)
         ns == params[p].namespace
     IN \E res \in NamedAnswers(ns, "deployment", deployment.metadata.name) :
          /\ calls' = [calls EXCEPT ![p] = Logged(p, "rollback", "deployment", res)]
          /\ IF res = Ok
             THEN /\ rollbackRequests' =
                       Append(rollbackRequests, [namespace |-> ns, name |-> deployment.metadata.name])
                  /\ pc' = [pc EXCEPT ![p] = "idle"]
                  /\ result' = [result EXCEPT ![p] =
                       [status |-> "success", message |-> RolledBack(deployment.metadata.name)]]
             ELSE /\ Throw(p, ApiError(res))
                  /\ UNCHANGED rollbackRequests
  /\ UNCHANGED <<clusterVars, now, minted, op, params, deploymentId, stage,
                 deployedResources, waitVars, historyVars, waitCalls, lookups,
                 items, monitorVars>>
  /\ UNCHANGED convergedAt

\* a Deployment as a deploy with the given correlation identifier left it
LabelledDeployment(name, id) ==
  Key("staging", "deployment", name) :> NewObject(Stamp(DeploymentDesc(name, NoLabels, 1), id))

\* the clusters a lookup by correlation identifier may meet: each of a-s and a-w
\* absent, or left by the first or by the second deploy
LabelledClusters ==
  LET left(name) == {<<>>} \cup {LabelledDeployment(name, id) : id \in {uuidv4(1), uuidv4(2)}}
  IN {x @@ y : x \in left(Str_a_s), y \in left(Str_a_w)}

InitRollback ==
  /\ nsExists = {"staging"}
  /\ live \in LabelledClusters
  /\ now = 0
  /\ minted = 2
  /\ pc = [p \in Procs |-> "idle"]
  /\ op = [p \in Procs |-> "none"]
  /\ params = [p \in Procs |-> NoParams]
  /\ deploymentId = [p \in Procs |-> ""]
  /\ stage = [p \in Procs |-> 0]
  /\ deployedResources = [p \in Procs |-> <<>>]
  /\ startTime = [p \in Procs |-> 0]
  /\ timeoutMs = [p \in Procs |-> 0]
  /\ lastRead = [p \in Procs |-> NoRead]
  /\ result = [p \in Procs |-> NoResult]
  /\ calls = [p \in Procs |-> <<>>]
  /\ applied = [ns \in Namespaces |-> [k \in Kinds |-> <<>>]]
  /\ returned = {}
  /\ waitCalls = 0
  /\ lookups = [p \in Procs |-> NoLookups]
  /\ rollbackRequests = <<>>
  /\ items = <<>>
  /\ iterations = 0
  /\ iteration = 0
  /\ results = <<>>
  /\ pauses = 0
  /\ convergedAt = Missing

\* rollback invocations, one at a time
NextRollback ==
  \/ Rollback(1)
  \/ ListForRollback(1)
  \/ RollbackDeployment(1)

SpecRollback == InitRollback /\ [][NextRollback]_vars

(* ------------------------- properties: rollback ------------------------ *)

\* the invocation is a rollback whose identifier no Deployment of the namespace carries
MatchesNone(p) ==
  /\ op[p] = "rollback"
  /\ Matching(params[p].namespace, params[p].deploymentId) = {}

\* a rollback call is among the calls the invocation made
RollbackCalled(p) == \E n \in 1..Len(calls[p]) : calls[p][n].op = "rollback"

\* the list call of a rollback that matches nothing is answered
C14_Step(p) ==
  (MatchesNone(p) /\ pc[p] = "list") =>
    /\ pc'[p] = "idle"
    /\ result'[p].status = "error"
    /\ Last(calls'[p]).res = Ok =>
         result'[p].error = [kind |-> "notFound", deploymentId |-> params[p].deploymentId]
    /\ UNCHANGED <<clusterVars, rollbackRequests>>

\* a rollback that matches nothing is over
C14_State(p) ==
  (MatchesNone(p) /\ pc[p] = "idle") =>
    /\ result[p].status = "error"
    /\ ~RollbackCalled(p)

\* C14: a rollback whose correlation identifier matches no Deployment of the
\* namespace fails, with the not-found error once the list call has answered,
\* issues no rollback request and leaves the cluster as it was.
C14_RollbackNotFound == [](C14_State(1)) /\ [][C14_Step(1)]_vars

\* a rollback of uuid-3 in a cluster whose Deployments carry uuid-1 and uuid-2
\* failed with the not-found error
C14_Witness ==
  /\ MatchesNone(1)
  /\ pc[1] = "idle"
  /\ live # <<>>
  /\ result[1].status = "error"
  /\ result[1].error.kind = "notFound"
  /\ rollbackRequests = <<>>

(* --------------- MonitorAgent.generateMonitoringReport ----------------- *)
\* A mean or a percentage is the pair <<dividend, divisor>> of the division
\* that yields it; the divisor is positive.

\* samples handed to generateMonitoringReport per behaviour of SpecReport
MaxSamples == 10

\* a faulty variant: the error samples are not filtered out
IsValid_All(r) == TRUE

\* !r.error
IsValid(r) == "error" \notin DOMAIN r \/ r.error = ""

\* getNestedValue(r, 'deployment.ready_replicas'), Missing when it is no number
ReadyReplicasOf(r) ==
  IF "deployment" \in DOMAIN r /\ "ready_replicas" \in DOMAIN r.deployment
  THEN r.deployment.ready_replicas ELSE Missing

\* getNestedValue(r, 'pods.running_pods'), Missing when it is no number
RunningPodsOf(r) ==
  IF "pods" \in DOMAIN r /\ "running_pods" \in DOMAIN r.pods
  THEN r.pods.running_pods ELSE Missing

\* r.health?.status === 'healthy'
IsHealthy(r) == "health" \in DOMAIN r /\ r.health.status = "healthy"

RECURSIVE Sum(_)
\* values.reduce((sum, val) => sum + val, 0)
Sum(values) == IF values = <<>> THEN 0 ELSE Head(values) + Sum(Tail(values))

\* calculateAverage, given the values found at the path
CalculateAverage(found) ==
  LET values == SelectSeq(found, LAMBDA v : v # Missing)
  IN IF Len(values) > 0 THEN <<Sum(values), Len(values)>> ELSE <<0, 1>>

\* q < k
LessThan(q, k) == q[1] < k * q[2]

\* q >= k
AtLeast(q, k) == q[1] >= k * q[2]

\* q.toFixed(1), in tenths
ToFixed1(q) == (20 * q[1] + q[2]) \div (2 * q[2])

\* a faulty variant: the three tests form one else-if chain
Alerts_Exclusive(avgReadyReplicas, avgRunningPods, healthPercentage) ==
  IF LessThan(avgReadyReplicas, 1) THEN <<"Low replica count detected">>
  ELSE IF LessThan(avgRunningPods, 1) THEN <<"Insufficient running pods">>
  ELSE IF LessThan(healthPercentage, 80) THEN <<"Health check success rate below 80%">>
  ELSE <<>>

\* the three pushes to alerts
Alerts(avgReadyReplicas, avgRunningPods, healthPercentage) ==
  (IF LessThan(avgReadyReplicas, 1) THEN <<"Low replica count detected">> ELSE <<>>) \o
  (IF LessThan(avgRunningPods, 1) THEN <<"Insufficient running pods">> ELSE <<>>) \o
  (IF LessThan(healthPercentage, 80) THEN <<"Health check success rate below 80%">> ELSE <<>>)

\* a faulty variant: the recommendations use the thresholds of the alerts
Recommendations_AlertThresholds(avgReadyReplicas, healthPercentage) ==
  (IF LessThan(avgReadyReplicas, 1)
   THEN <<"Consider increasing replica count for high availability">> ELSE <<>>) \o
  (IF LessThan(healthPercentage, 80) THEN <<"Investigate health check failures">> ELSE <<>>)

\* the two pushes to recommendations
Recommendations(avgReadyReplicas, healthPercentage) ==
  (IF LessThan(avgReadyReplicas, 2)
   THEN <<"Consider increasing replica count for high availability">> ELSE <<>>) \o
  (IF LessThan(healthPercentage, 90) THEN <<"Investigate health check failures">> ELSE <<>>)

\* a faulty variant: the verdict uses thresholds of 80 and 60
OverallHealth_LowThresholds(healthPercentage) ==
  IF AtLeast(healthPercentage, 80) THEN "healthy"
  ELSE IF AtLeast(healthPercentage, 60) THEN "warning"
  ELSE "unhealthy"

\* a faulty variant: the thresholds themselves fall in the lower verdict
OverallHealth_Strict(healthPercentage) ==
  IF ~LessThan(healthPercentage, 90) /\ healthPercentage[1] # 90 * healthPercentage[2]
  THEN "healthy"
  ELSE IF ~LessThan(healthPercentage, 70) /\ healthPercentage[1] # 70 * healthPercentage[2]
  THEN "warning"
  ELSE "unhealthy"

\* healthPercentage >= 90 ? 'healthy' : healthPercentage >= 70 ? 'warning' : 'unhealthy'
OverallHealth(healthPercentage) ==
  IF AtLeast(healthPercentage, 90) THEN "healthy"
  ELSE IF AtLeast(healthPercentage, 70) THEN "warning"
  ELSE "unhealthy"

\* metrics: {}
NoMetrics == <<>>

\* the report of a sample sequence without a valid sample
NoValidData ==
  [overall_health |-> "unknown", metrics |-> NoMetrics,
   alerts |-> <<"No valid monitoring data collected">>,
   recommendations |-> <<"Check monitoring configuration and connectivity">>]

\* generateMonitoringReport(appName, namespace, monitoringResults)
MonitoringReport(monitoringResults) ==
  LET validResults == SelectSeq(monitoringResults, IsValid)
      avgReadyReplicas ==
        CalculateAverage([n \in DOMAIN validResults |-> ReadyReplicasOf(validResults[n])])
      avgRunningPods ==
        CalculateAverage([n \in DOMAIN validResults |-> RunningPodsOf(validResults[n])])
      healthyChecks == Len(SelectSeq(validResults, IsHealthy))
      healthPercentage == <<healthyChecks * 100, Len(validResults)>>
  IN IF Len(validResults) = 0 THEN NoValidData
     ELSE [overall_health |-> OverallHealth(healthPercentage),
           metrics |-> [monitoring_duration |-> Len(monitoringResults),
                        average_ready_replicas |-> avgReadyReplicas,
                        average_running_pods |-> avgRunningPods,
                        health_success_rate |-> ToFixed1(healthPercentage),
                        data_points |-> Len(validResults)],
           alerts |-> Alerts(avgReadyReplicas, avgRunningPods, healthPercentage),
           recommendations |-> Recommendations(avgReadyReplicas, healthPercentage)]

\* a snapshot whose four collections answered
Snapshot(timestamp, readyReplicas, runningPods, status) ==
  [timestamp |-> timestamp,
   deployment |-> [ready_replicas |-> readyReplicas],
   pods |-> [running_pods |-> runningPods],
   service |-> [type |-> "ClusterIP"],
   health |-> [status |-> status]]

\* the samples a sequence handed to generateMonitoringReport is made of: an
\* error sample, snapshots, and a snapshot whose collections each recorded an error
SampleKinds ==
  << [timestamp |-> 0, error |-> "collection failed"],
     Snapshot(0, 0, 0, "unhealthy"),
     Snapshot(0, 0, 1, "healthy"),
     Snapshot(0, 1, 0, "healthy"),
     Snapshot(0, 1, 1, "unhealthy"),
     Snapshot(0, 2, 2, "healthy"),
     [timestamp |-> 0, deployment |-> [error |-> "read failed"],
      pods |-> [error |-> "list failed"], service |-> [error |-> "read failed"],
      health |-> [status |-> "unknown"]] >>

\* the caller's sequence grows by one sample; samples of one kind are adjacent
GivenSample(p) ==
  /\ pc[p] = "idle"
  /\ result[p] = NoResult
  /\ Len(results) < MaxSamples
  /\ \E k \in DOMAIN SampleKinds :
       /\ results # <<>> => \E j \in 1..k : SampleKinds[j] = results[Len(results)]
       /\ results' = Append(results, SampleKinds[k])
  /\ UNCHANGED <<clusterVars, now, minted, pc, op, params, deploymentId, stage,
                 deployedResources, waitVars, result, calls, historyVars, waitCalls,
                 lookups, rollbackVars, iterations, iteration, pauses>>
  /\ UNCHANGED convergedAt

\* generateMonitoringReport is called with the sequence
GenerateMonitoringReport(p) ==
  /\ pc[p] = "idle"
  /\ result[p] = NoResult
  /\ op' = [op EXCEPT ![p] = "report"]
  /\ result' = [result EXCEPT ![p] = [status |-> "success", value |-> MonitoringReport(results)]]
  /\ UNCHANGED <<clusterVars, now, minted, pc, params, deploymentId, stage,
                 deployedResources, waitVars, calls, historyVars, waitCalls,
                 lookups, rollbackVars, monitorVars>>
  /\ UNCHANGED convergedAt

\* reports of sample sequences
NextReport ==
  \/ GivenSample(1)
  \/ GenerateMonitoringReport(1)

SpecReport == Init /\ [][NextReport]_vars

(* ---------------------- properties: health aggregator ------------------ *)

\* generateMonitoringReport has returned
Reported(p) == op[p] = "report" /\ result[p].status = "success"

\* the positions of the samples that are not error samples
ValidPositions == {n \in DOMAIN results : "error" \notin DOMAIN results[n]}

\* the positions of the valid samples whose liveness probe was healthy
HealthyPositions == {n \in ValidPositions : results[n].health.status = "healthy"}

\* the positions of the valid samples that report the count, and the count
ReadyPositions == {n \in ValidPositions : "ready_replicas" \in DOMAIN results[n].deployment}

RunningPositions == {n \in ValidPositions : "running_pods" \in DOMAIN results[n].pods}

RECURSIVE TotalReady(_)
TotalReady(S) ==
  IF S = {} THEN 0
  ELSE LET n == CHOOSE m \in S : TRUE
       IN results[n].deployment.ready_replicas + TotalReady(S \ {n})

RECURSIVE TotalRunning(_)
TotalRunning(S) ==
  IF S = {} THEN 0
  ELSE LET n == CHOOSE m \in S : TRUE
       IN results[n].pods.running_pods + TotalRunning(S \ {n})

\* C18: without a valid sample, the empty sequence included, the report is
\* overall_health unknown with exactly one alert, exactly one recommendation
\* and empty metrics, the same report for every such sequence.
C18_NoValidSample ==
  \A p \in Procs :
    (Reported(p) /\ ValidPositions = {}) =>
      /\ result[p].value.overall_health = "unknown"
      /\ Len(result[p].value.alerts) = 1
      /\ Len(result[p].value.recommendations) = 1
      /\ DOMAIN result[p].value.metrics = {}
      /\ result[p].value =
           [overall_health |-> "unknown", metrics |-> <<>>,
            alerts |-> <<"No valid monitoring data collected">>,
            recommendations |-> <<"Check monitoring configuration and connectivity">>]

\* three error samples were reported on
C18_Witness ==
  /\ Reported(1)
  /\ Len(results) = 3
  /\ ValidPositions = {}
  /\ result[1].value.overall_health = "unknown"

\* C19: with at least one valid sample the verdict is healthy when the share
\* of valid samples with a healthy liveness probe is at least 90%, warning
\* when it is at least 70% and below 90%, unhealthy below 70%, and never unknown.
C19_Verdict ==
  \A p \in Procs :
    (Reported(p) /\ ValidPositions # {}) =>
      LET healthy == 100 * Cardinality(HealthyPositions)
          valid == Cardinality(ValidPositions)
      IN result[p].value.overall_health =
           IF healthy >= 90 * valid THEN "healthy"
           ELSE IF healthy >= 70 * valid THEN "warning"
           ELSE "unhealthy"

\* nine of ten valid samples were healthy: exactly 90%, verdict healthy
C19_Witness ==
  /\ Reported(1)
  /\ Cardinality(ValidPositions) = 10
  /\ Cardinality(HealthyPositions) = 9
  /\ result[1].value.overall_health = "healthy"

\* C20: with at least one valid sample the alerts are exactly those of the
\* conditions that hold, in this order: mean ready-replica count < 1, mean
\* running-pod count < 1, success rate < 80%; each is emitted whatever the
\* others and the verdict are. A mean is taken over the valid samples that
\* report the count and is 0 when none does.
C20_Alerts ==
  \A p \in Procs :
    (Reported(p) /\ ValidPositions # {}) =>
      LET lowReady == TotalReady(ReadyPositions) < Cardinality(ReadyPositions)
                      \/ ReadyPositions = {}
          lowRunning == TotalRunning(RunningPositions) < Cardinality(RunningPositions)
                        \/ RunningPositions = {}
          lowRate == 100 * Cardinality(HealthyPositions) < 80 * Cardinality(ValidPositions)
      IN result[p].value.alerts =
           (IF lowReady THEN <<"Low replica count detected">> ELSE <<>>) \o
           (IF lowRunning THEN <<"Insufficient running pods">> ELSE <<>>) \o
           (IF lowRate THEN <<"Health check success rate below 80%">> ELSE <<>>)

\* the verdict is healthy and the only alert is the one for running pods
C20_Witness ==
  /\ Reported(1)
  /\ ValidPositions # {}
  /\ result[1].value.overall_health = "healthy"
  /\ result[1].value.alerts = <<"Insufficient running pods">>

(* --------------------------- MonitorAgent.monitor ---------------------- *)

\* const monitoringInterval = 30, in seconds
monitoringInterval == 30

\* the monitoring_duration values a caller passes, in seconds
Durations == {0, 29, 30, 60, 95}

\* error.message of a cluster call that failed
HttpError == "HTTP request failed"

\* the liveness probe got no response: axios.get threw
NoResponse == 0

\* what the liveness probe may be answered with
ProbeAnswers == {200, 503, NoResponse}

\* new Error(`Deployment with ID ${deployment_id} not found`)
DeploymentNotFound(id) == [kind |-> "notFound", deployment_id |-> id]

\* a faulty variant: the planned iterations are rounded up
Iterations_Ceil(durationSeconds) ==
  (durationSeconds + monitoringInterval - 1) \div monitoringInterval

\* Math.floor(durationSeconds / monitoringInterval)
Iterations(durationSeconds) == durationSeconds \div monitoringInterval

\* performMonitoring starts: the loop's first test
StartMonitoring(p) ==
  /\ iterations' = Iterations(params[p].monitoring_duration)
  /\ iteration' = 0
  /\ pc' = [pc EXCEPT ![p] =
       IF 0 < Iterations(params[p].monitoring_duration) THEN "sample" ELSE "report"]
  /\ UNCHANGED result

\* a faulty variant: monitoring starts although no deployment was found
MissingDeployment_Proceeds(p) == StartMonitoring(p)

\* if (!deployment) throw ...
MissingDeployment(p) ==
  /\ Throw(p, DeploymentNotFound(params[p].deployment_id))
  /\ UNCHANGED <<iterations, iteration>>

\* monitor(params), up to the list call of findDeploymentById
Monitor(p) ==
  /\ pc[p] = "idle"
  /\ \E id \in {uuidv4(1), uuidv4(3)}, ns \in Namespaces, d \in Durations :
       params' = [params EXCEPT ![p] =
         [deployment_id |-> id, namespace |-> ns, monitoring_duration |-> d]]
  /\ op' = [op EXCEPT ![p] = "monitor"]
  /\ pc' = [pc EXCEPT ![p] = "find"]
  /\ result' = [result EXCEPT ![p] = NoResult]
  /\ calls' = [calls EXCEPT ![p] = <<>>]
  /\ now' = 0
  /\ items' = <<>>
  /\ iterations' = 0
  /\ iteration' = 0
  /\ results' = <<>>
  /\ pauses' = 0
  /\ UNCHANGED <<clusterVars, minted, deploymentId, stage, deployedResources,
                 waitVars, historyVars, waitCalls, lookups, rollbackRequests>>
  /\ UNCHANGED convergedAt

\* findDeploymentById: the list call, items[0] || null, null when the call
\* failed; and monitor's test of what it returned
FindDeploymentById(p) ==
  /\ pc[p] = "find"
  /\ \E res \in ListAnswers :
       /\ calls' = [calls EXCEPT ![p] = Logged(p, "list", "deployment", res)]
       /\ \E listing \in IF res = Ok
                         THEN Orderings(Matching(params[p].namespace, params[p].deployment_id))
                         ELSE {<<>>} :
            /\ items' = [n \in DOMAIN listing |-> Item(listing[n])]
            /\ IF Len(listing) = 0 THEN MissingDeployment(p) ELSE StartMonitoring(p)
  /\ UNCHANGED <<clusterVars, now, minted, op, params, deploymentId, stage,
                 deployedResources, waitVars, historyVars, waitCalls, lookups,
                 rollbackRequests, results, pauses>>
  /\ UNCHANGED convergedAt

\* const appName = deployment.metadata.name
MonitoredName == items[1].metadata.name

\* getDeploymentMetrics: the counts of the Deployment, which the cluster
\* reports converged, or the error its catch block returns
DeploymentMetrics(ns, appName, res) ==
  IF res = Ok
  THEN [replicas |-> OrZero(live[Key(ns, "deployment", appName)].spec.replicas),
        ready_replicas |-> OrZero(live[Key(ns, "deployment", appName)].spec.replicas)]
  ELSE [error |-> HttpError]

\* getPodMetrics: one running pod per replica, or the error its catch block returns
PodMetrics(ns, appName, res) ==
  IF res = Ok
  THEN [total_pods |-> OrZero(live[Key(ns, "deployment", appName)].spec.replicas),
        running_pods |-> OrZero(live[Key(ns, "deployment", appName)].spec.replicas)]
  ELSE [error |-> HttpError]

\* getServiceEndpoints
ServiceEndpoints(res) ==
  IF res = Ok THEN [ready_addresses |-> 1, not_ready_addresses |-> 0]
  ELSE [error |-> HttpError]

\* getServiceMetrics
ServiceMetrics(ns, appName, res, endpointsRes) ==
  IF res = Ok
  THEN LET service == ServiceBody(live[Key(ns, "service", appName \o ServiceSuffix)])
       IN [type |-> service.spec.type, cluster_ip |-> service.spec.clusterIP,
           endpoints |-> ServiceEndpoints(endpointsRes)]
  ELSE [error |-> HttpError]

\* MonitorAgent.getServiceUrl: the cluster address of the service, <<>> for null
MonitorServiceUrl(ns, appName, res) ==
  IF res = Ok
  THEN LET service == ServiceBody(live[Key(ns, "service", appName \o ServiceSuffix)])
       IN IF HasClusterIp(service) THEN ClusterIpUrl(service) ELSE <<>>
  ELSE <<>>

\* performHealthCheck
HealthCheck(serviceUrl, statusCode) ==
  IF serviceUrl = <<>> THEN [status |-> "unknown"]
  ELSE IF statusCode = NoResponse THEN [status |-> "unhealthy"]
  ELSE [status |-> IF statusCode = 200 THEN "healthy" ELSE "unhealthy",
        status_code |-> statusCode]

\* the samples one call of collectMetrics may produce at the given time
Collected(ns, appName, timestamp) ==
  {[timestamp |-> timestamp,
    deployment |-> DeploymentMetrics(ns, appName, a.deployment),
    pods |-> PodMetrics(ns, appName, a.pods),
    service |-> ServiceMetrics(ns, appName, a.service, a.endpoints),
    health |-> HealthCheck(MonitorServiceUrl(ns, appName, a.url), a.probe)] :
   a \in [deployment : NamedAnswers(ns, "deployment", appName),
          pods : ListAnswers,
          service : NamedAnswers(ns, "service", appName \o ServiceSuffix),
          endpoints : NamedAnswers(ns, "service", appName \o ServiceSuffix),
          url : NamedAnswers(ns, "service", appName \o ServiceSuffix),
          probe : ProbeAnswers]}

\* a faulty variant: a pause follows the last iteration too
PauseFollows_Always(i, n) == TRUE

\* if (i < iterations - 1) await this.sleep(monitoringInterval * 1000)
PauseFollows(i, n) == i < n - 1

\* one iteration of the loop of performMonitoring: the sample, the pause before
\* the next iteration, the loop's next test. No collection throws, so the
\* catch block of the loop is never entered.
Sample(p) ==
  /\ pc[p] = "sample"
  /\ \E sample \in Collected(params[p].namespace, MonitoredName, now) :
       results' = Append(results, sample)
  /\ IF PauseFollows(iteration, iterations)
     THEN /\ now' = now + monitoringInterval * 1000
          /\ pauses' = pauses + 1
     ELSE UNCHANGED <<now, pauses>>
  /\ iteration' = iteration + 1
  /\ pc' = [pc EXCEPT ![p] = IF iteration + 1 < iterations THEN "sample" ELSE "report"]
  /\ UNCHANGED <<clusterVars, minted, op, params, deploymentId, stage,
                 deployedResources, waitVars, result, calls, historyVars, waitCalls,
                 lookups, rollbackVars, iterations>>
  /\ UNCHANGED convergedAt

\* generateDashboardUrl, with the default GRAFANA_URL
DashboardUrl(appName, namespace) ==
  <<"http://grafana.monitoring.svc.cluster.local",
    "/d/kubernetes-deployment?var-deployment=">> \o appName \o
  <<"&var-namespace=", namespace>>

\* monitor: the report of the campaign and the return
ReturnMonitor(p) ==
  /\ pc[p] = "report"
  /\ pc' = [pc EXCEPT ![p] = "idle"]
  /\ LET report == MonitoringReport(results)
     IN result' = [result EXCEPT ![p] =
          [status |-> "success", deployment_id |-> params[p].deployment_id,
           monitoring_status |-> "completed",
           duration |-> params[p].monitoring_duration,
           health_status |-> report.overall_health, metrics |-> report.metrics,
           alerts |-> report.alerts, recommendations |-> report.recommendations,
           dashboard_url |-> DashboardUrl(MonitoredName, params[p].namespace)]]
  /\ UNCHANGED <<clusterVars, now, minted, op, params, deploymentId, stage,
                 deployedResources, waitVars, calls, historyVars, waitCalls,
                 lookups, rollbackVars, monitorVars>>
  /\ UNCHANGED convergedAt

\* the clusters a campaign may meet: a-w left by the second deploy, or a-s left
\* by the first deploy with its service
MonitorClusters ==
  { LabelledDeployment(Str_a_w, uuidv4(2)),
    LabelledDeployment(Str_a_s, uuidv4(1)) @@
      (Key("staging", "service", Str_a_s \o ServiceSuffix) :>
         NewObject(Stamp(ServiceDesc(Str_a_s \o ServiceSuffix, NoLabels, 80), uuidv4(1)))) }

InitMonitor ==
  /\ nsExists = {"staging"}
  /\ live \in MonitorClusters
  /\ now = 0
  /\ minted = 2
  /\ pc = [p \in Procs |-> "idle"]
  /\ op = [p \in Procs |-> "none"]
  /\ params = [p \in Procs |-> NoParams]
  /\ deploymentId = [p \in Procs |-> ""]
  /\ stage = [p \in Procs |-> 0]
  /\ deployedResources = [p \in Procs |-> <<>>]
  /\ startTime = [p \in Procs |-> 0]
  /\ timeoutMs = [p \in Procs |-> 0]
  /\ lastRead = [p \in Procs |-> NoRead]
  /\ result = [p \in Procs |-> NoResult]
  /\ calls = [p \in Procs |-> <<>>]
  /\ applied = [ns \in Namespaces |-> [k \in Kinds |-> <<>>]]
  /\ returned = {}
  /\ waitCalls = 0
  /\ lookups = [p \in Procs |-> NoLookups]
  /\ rollbackRequests = <<>>
  /\ items = <<>>
  /\ iterations = 0
  /\ iteration = 0
  /\ results = <<>>
  /\ pauses = 0
  /\ convergedAt = Missing

\* monitor invocations, one at a time
NextMonitor ==
  \/ Monitor(1)
  \/ FindDeploymentById(1)
  \/ Sample(1)
  \/ ReturnMonitor(1)

SpecMonitor == InitMonitor /\ [][NextMonitor]_vars

(* ------------------------- properties: monitor ------------------------- *)

\* the invocation is a monitor whose identifier no Deployment of the namespace carries
MonitorsNone(p) ==
  /\ op[p] = "monitor"
  /\ Matching(params[p].namespace, params[p].deployment_id) = {}

\* C15: monitor fails with the not-found error when no Deployment of the
\* namespace carries the correlation identifier; it then takes no sample, makes
\* no pause and returns no report.
C15_MonitorNotFound ==
  \A p \in Procs :
    MonitorsNone(p) =>
      /\ pc[p] \in {"find", "idle"}
      /\ results = <<>>
      /\ pauses = 0
      /\ now = 0
      /\ pc[p] = "idle" =>
           result[p] = [status |-> "error",
                        error |-> [kind |-> "notFound",
                                   deployment_id |-> params[p].deployment_id]]

\* a campaign of 95 seconds for uuid-3, which no Deployment carries, failed
C15_Witness ==
  /\ MonitorsNone(1)
  /\ pc[1] = "idle"
  /\ params[1].monitoring_duration = 95
  /\ result[1].status = "error"
  /\ live # <<>>

\* a campaign is running or has returned
Campaign(p) == op[p] = "monitor" /\ pc[p] \in {"sample", "report"}

Completed(p) == op[p] = "monitor" /\ pc[p] = "idle" /\ result[p].status = "success"

\* n is the whole part of d / 30
WholeThirtieth(n, d) == 30 * n <= d /\ d < 30 * (n + 1)

C16_State(p) ==
  /\ (Campaign(p) \/ Completed(p)) =>
       /\ Len(results) = iteration
       /\ iteration <= iterations
       /\ WholeThirtieth(iterations, params[p].monitoring_duration)
  /\ Campaign(p) => (pc[p] = "sample" <=> iteration < iterations)
  /\ Completed(p) =>
       /\ Len(results) = iterations
       /\ result[p].duration = params[p].monitoring_duration

\* every iteration adds one sample, whatever its collections answered
C16_Step(p) ==
  (pc[p] = "sample") =>
    /\ iteration' = iteration + 1
    /\ Len(results') = Len(results) + 1
    /\ SubSeq(results', 1, Len(results)) = results

\* C16: a campaign of d seconds ends after floor(d / 30) iterations and returns
\* exactly that many samples (1 for 30, 3 for 95, none below 30), one per
\* iteration, whatever each collection answered.
C16_SampleCount == [](C16_State(1)) /\ [][C16_Step(1)]_vars

\* a campaign of 95 seconds returned three samples, of which one has a failed
\* collection and one has none
C16_Witness ==
  /\ Completed(1)
  /\ params[1].monitoring_duration = 95
  /\ Len(results) = 3
  /\ "error" \in DOMAIN results[1].deployment
  /\ "error" \notin DOMAIN results[2].deployment
  /\ "error" \notin DOMAIN results[2].pods

\* the sample is {timestamp, error}
IsErrorSample(r) == DOMAIN r = {"timestamp", "error"}

\* a collection of deployment, pod or service metrics failed in the sample's iteration
CollectionFailed(r) ==
  \E m \in {"deployment", "pods", "service"} : m \in DOMAIN r /\ "error" \in DOMAIN r[m]

\* C17: an iteration in which the collection of the deployment, pod or service
\* metrics failed is recorded as the error sample {timestamp, error}, which the
\* report leaves out of its valid samples; the campaign goes on.
C17_Original ==
  \A n \in DOMAIN results :
    /\ ~CollectionFailed(results[n])
    /\ IsErrorSample(results[n]) \/ DOMAIN results[n] \cap {"error"} = {}

(* ------------------ properties: recommendations, means ----------------- *)

\* C21: with at least one valid sample the recommendations are exactly: the
\* one to raise the replica count iff the mean ready-replica count is < 2,
\* followed by the one to investigate failures iff the success rate is < 90%.
\* The mean is taken over the valid samples that report the count and is 0
\* when none does.
C21_Recommendations ==
  \A p \in Procs :
    (Reported(p) /\ ValidPositions # {}) =>
      LET fewReady == TotalReady(ReadyPositions) < 2 * Cardinality(ReadyPositions)
                      \/ ReadyPositions = {}
          lowRate == 100 * Cardinality(HealthyPositions) < 90 * Cardinality(ValidPositions)
      IN result[p].value.recommendations =
           (IF fewReady
            THEN <<"Consider increasing replica count for high availability">>
            ELSE <<>>) \o
           (IF lowRate THEN <<"Investigate health check failures">> ELSE <<>>)

\* the mean is 1, below 2 and not below 1, and every probe was healthy: the
\* only recommendation is the one to raise the replica count, with no alert
\* for the replica count
C21_Witness ==
  /\ Reported(1)
  /\ ValidPositions # {}
  /\ TotalReady(ReadyPositions) = Cardinality(ReadyPositions)
  /\ HealthyPositions = ValidPositions
  /\ result[1].value.recommendations =
       <<"Consider increasing replica count for high availability">>
  /\ result[1].value.alerts = <<"Insufficient running pods">>

(* ----------------------- concurrent invocations ------------------------ *)
\* Two deploy invocations whose awaits interleave, each followed from its call
\* to the return of deployToKubernetes. The cluster answers one call at a time.
\* The readiness wait and the address resolution that follow only read the
\* cluster; they are followed in Spec.
NextRace ==
  \/ Deploy(1)
  \/ Deploy(2)
  \/ ReadNamespace(1)
  \/ ReadNamespace(2)
  \/ CreateNamespace(1)
  \/ CreateNamespace(2)
  \/ CreateResource(1)
  \/ CreateResource(2)
  \/ ReplaceResource(1)
  \/ ReplaceResource(2)

SpecRace == Init /\ [][NextRace]_vars

(* ------------------- properties: concurrent invocations ---------------- *)

\* the latest call of an invocation is the createNamespace that answered res
NamespaceCreateAnswered(p, res) ==
  /\ op[p] = "deploy"
  /\ calls[p] # <<>>
  /\ Last(calls[p]) = [op |-> "create", kind |-> "namespace", res |-> res]

\* C22: when two deploy invocations ensure the same absent namespace and
\* their read and create calls interleave, neither fails because the other
\* created the namespace first, and the namespace exists once afterwards.
C22_Original ==
  \A p \in Procs :
    /\ NamespaceCreateAnswered(p, Conflict) => result[p].status # "error"
    /\ NamespaceCreateAnswered(p, Ok) => params[p].namespace \in nsExists

\* the status of the outcome an invocation holds for a kind, "none" without one
StatusOf(p, kind) ==
  IF HasOutcome(p, kind)
  THEN LET i == CHOOSE j \in 1..Len(deployedResources[p]) :
                  deployedResources[p][j].type = kind
       IN deployedResources[p][i].status
  ELSE "none"

\* p and q are the first two invocations of the behaviour, so the cluster held
\* nothing when they started, and both are to apply a Deployment of one name
RaceOn(p, q) ==
  /\ p # q
  /\ op[p] = "deploy" /\ op[q] = "deploy"
  /\ {deploymentId[p], deploymentId[q]} = {uuidv4(1), uuidv4(2)}
  /\ params[p].namespace = params[q].namespace
  /\ Present(ConfigDesc(p, "deployment")) /\ Present(ConfigDesc(q, "deployment"))
  /\ ConfigDesc(p, "deployment").metadata.name = ConfigDesc(q, "deployment").metadata.name

\* C23: when two rollouts apply a Deployment of one name that is absent at
\* first, their creates and replaces interleaved in any order, the one that
\* reports updated does so after the other reported created, never both the
\* same; an apply fails only on a failure the cluster injects, never on the
\* conflict or on a missing object; and once both hold their outcome the one
\* live Deployment of that name carries the identifier of the invocation that
\* reported updated and not the other's.
C23_ApplyRace ==
  \A p, q \in Procs :
    RaceOn(p, q) =>
      LET key == Key(params[p].namespace, "deployment",
                     ConfigDesc(p, "deployment").metadata.name)
      IN /\ StatusOf(p, "deployment") \in {"none", "created", "updated"}
         /\ StatusOf(p, "deployment") = "updated" => StatusOf(q, "deployment") = "created"
         /\ StatusOf(p, "deployment") = "created" => StatusOf(q, "deployment") # "created"
         /\ (result[p].status = "error" /\ calls[p] # <<>>
             /\ Last(calls[p]).kind = "deployment") => Last(calls[p]).res \in Unclassified
         /\ StatusOf(p, "deployment") # "none" =>
              /\ key \in DOMAIN live
              /\ live[key].labels["deployment-id"] \in {deploymentId[p], deploymentId[q]}
         /\ (StatusOf(p, "deployment") = "created" /\ StatusOf(q, "deployment") = "updated") =>
              /\ live[key].labels["deployment-id"] = deploymentId[q]
              /\ deploymentId[p] # deploymentId[q]

\* both creates were issued before either was answered: the second invocation
\* created the Deployment, the first got the conflict and replaced it
C23_Witness ==
  /\ RaceOn(1, 2)
  /\ deploymentId[1] = uuidv4(1)
  /\ StatusOf(2, "deployment") = "created"
  /\ StatusOf(1, "deployment") = "updated"
  /\ ConfigDesc(1, "deployment") # ConfigDesc(2, "deployment")
  /\ live[Key("staging", "deployment", Str_a_s)].labels["deployment-id"] = deploymentId[1]

(* ------------------ properties: lookup by identifier ------------------- *)

\* the list call of a lookup by correlation identifier answered res
ListAnswered(p, res) ==
  /\ op[p] \in {"monitor", "rollback"}
  /\ calls[p] # <<>>
  /\ calls[p][1] = [op |-> "list", kind |-> "deployment", res |-> res]

\* C24: when the list call by which monitor or rollback looks up the
\* Deployments of a correlation identifier fails with an unclassified error,
\* the call ends with that same error and with no other outcome, such as
\* the error for an identifier that was not found.
C24_Original ==
  \A p \in Procs : \A res \in Unclassified :
    ListAnswered(p, res) =>
      /\ pc[p] = "idle"
      /\ result[p] = [status |-> "error", error |-> ApiError(res)]

(* ------------------------- properties: pauses -------------------------- *)

\* the pauses a campaign of n planned iterations has made once i are over
PausesAfter(i, n) == IF i < n THEN i ELSE IF n > 0 THEN n - 1 ELSE 0

C25_State(p) ==
  /\ (Campaign(p) \/ Completed(p)) =>
       /\ pauses = PausesAfter(iteration, iterations)
       /\ \A n \in 1..(Len(results) - 1) :
            results[n + 1].timestamp = results[n].timestamp + 30 * 1000
  /\ Completed(p) =>
       /\ iterations > 0 => pauses = iterations - 1
       /\ results # <<>> => now = Last(results).timestamp

\* a pause is made by an iteration that is not the last one, and by nothing else
C25_Step(p) ==
  /\ pauses' # pauses => \/ pc[p] = "idle" /\ pauses' = 0
                         \/ /\ pc[p] = "sample"
                            /\ iteration + 1 < iterations
                            /\ pauses' = pauses + 1
                            /\ now' = now + 30 * 1000
  /\ (pc[p] = "sample" /\ iteration + 1 < iterations) => pauses' = pauses + 1
  /\ (pc[p] = "sample" /\ iteration + 1 >= iterations) => now' = now

\* C25: a campaign of n >= 1 planned iterations makes exactly n - 1 pauses of
\* 30 seconds (none when n = 0): one after each iteration but the last,
\* whether or not a collection of that iteration failed, so that consecutive
\* samples are 30 seconds apart, and none after the last iteration.
C25_Pauses == [](C25_State(1)) /\ [][C25_Step(1)]_vars

\* a campaign of three iterations made two pauses; a collection of the first
\* iteration had failed
C25_Witness ==
  /\ Completed(1)
  /\ iterations = 3
  /\ pauses = 2
  /\ CollectionFailed(results[1])
  /\ results[3].timestamp = 60000
  /\ now = 60000

(* -------------------------- properties: means -------------------------- *)

\* the pair q is the quotient of the sum by the count
IsQuotient(q, sum, count) == q[1] * count = sum * q[2]

\* C26: the reported mean ready-replica count and mean running-pod count are
\* the sum of the count over the valid samples divided by the number of valid
\* samples, and health_success_rate is the share of the valid samples whose
\* liveness probe was healthy: the three have the number of valid samples as
\* their divisor.
C26_Original ==
  \A p \in Procs :
    (Completed(p) /\ ValidPositions # {}) =>
      LET valid == Cardinality(ValidPositions)
          metrics == result[p].metrics
      IN /\ IsQuotient(metrics.average_ready_replicas, TotalReady(ReadyPositions), valid)
         /\ IsQuotient(metrics.average_running_pods, TotalRunning(RunningPositions), valid)
         /\ metrics.health_success_rate =
              ToFixed1(<<100 * Cardinality(HealthyPositions), valid>>)
         /\ metrics.data_points = valid

(* ------------------------ properties: rollback ------------------------- *)

\* the rollback requests an invocation has issued
RollbackCalls(p) == SelectSeq(calls[p], LAMBDA c : c.op = "rollback")

\* the rollback returned success
RollbackSucceeded(p) == op[p] = "rollback" /\ result[p].status = "success"

C27_State(p) ==
  /\ op[p] = "rollback" => Len(RollbackCalls(p)) <= 1
  /\ RollbackSucceeded(p) =>
       /\ Matching(params[p].namespace, params[p].deploymentId) # {}
       /\ calls[p] = <<[op |-> "list", kind |-> "deployment", res |-> Ok],
                       [op |-> "rollback", kind |-> "deployment", res |-> Ok]>>
       /\ Last(rollbackRequests) =
            [namespace |-> params[p].namespace, name |-> items[1].metadata.name]
       /\ result[p].message =
            <<"Deployment ">> \o items[1].metadata.name \o <<" rolled back successfully">>
       /\ lastRead[p] = NoRead
       /\ now = 0

\* the request is the step that returns: the cluster accepts one more
\* rollback and the invocation ends there
C27_Step(p) ==
  /\ rollbackRequests' # rollbackRequests =>
       /\ pc[p] = "rollback"
       /\ Len(rollbackRequests') = Len(rollbackRequests) + 1
       /\ pc'[p] = "idle"
       /\ result'[p].status = "success"
  /\ (pc[p] = "list" /\ pc'[p] = "rollback") => Len(items') >= 1

\* C27: a rollback whose identifier one or more Deployments carry issues
\* exactly one rollback request, for the name of the first Deployment of the
\* list, and returns success on its answer: it makes no read of the
\* Deployment and does not wait for the rolled-back revision.
C27_RollbackOnce == [](C27_State(1)) /\ [][C27_Step(1)]_vars

\* two Deployments carry the identifier; the list named a-w first and a-w,
\* not a-s, was rolled back
C27_Witness ==
  /\ RollbackSucceeded(1)
  /\ Len(items) = 2
  /\ items[1].metadata.name = Str_a_w
  /\ Last(rollbackRequests).name = Str_a_w

(* --------------------- properties: awaited Deployment ------------------ *)

\* the readiness wait of a deploy has polled the cluster
Polled(p) == op[p] = "deploy" /\ lastRead[p] # NoRead

\* C28: in every deploy the Deployment whose readiness is polled is the one
\* the rollout applied: kubernetes_config has a deployment descriptor and the
\* name polled is its metadata name; no Deployment the invocation did not
\* apply is waited for.
C28_Original ==
  \A p \in Procs :
    Polled(p) =>
      /\ Present(ConfigDesc(p, "deployment"))
      /\ HasOutcome(p, "deployment")
      /\ WaitTarget(p) = ConfigDesc(p, "deployment").metadata.name

(* ------------------- properties: convergence in time ------------------- *)

\* the invocation waits, or has waited, for the Deployment a-s, which
\* converges for good at convergedAt and whose reads succeed
AwaitsConverging(p) ==
  /\ op[p] = "wait"
  /\ params[p].appName = Str_a_s
  /\ convergedAt # Missing
  /\ timeoutMs[p] > 0

\* the deadline of the wait, by the clock
Deadline(p) == startTime[p] + timeoutMs[p]

\* C29 as stated: when the Deployment converges strictly before the deadline
\* of the wait and stays converged, and reads succeed, the wait does not end
\* with the deadline error, whatever the deadline and the time of convergence.
C29_Original ==
  \A p \in Procs :
    (AwaitsConverging(p) /\ convergedAt < Deadline(p)) => ~TimedOut(p)

\* C29, amended: the wait does not end with the deadline error when the
\* Deployment has converged by the start of the wait, or at least one pause
\* of 5000 ms and one read (at most MaxLatency) before the deadline, so that
\* a poll is issued after the convergence; it then returns success on the
\* first poll issued at or after the convergence.
C29_ConvergedInTime ==
  \A p \in Procs :
    (/\ AwaitsConverging(p)
     /\ \/ convergedAt <= startTime[p]
        \/ convergedAt + PollIntervalMs + MaxLatency <= Deadline(p)) =>
      /\ ~TimedOut(p)
      /\ pc[p] = "idle" => /\ result[p] = [status |-> "success", value |-> TRUE]
                           /\ lastRead[p] = "converged"
                           /\ now <= convergedAt + PollIntervalMs + 2 * MaxLatency
                              \/ now <= startTime[p] + MaxLatency

\* a wait of 12000 ms that started at 0 saw the Deployment unconverged,
\* paused, and returned on the convergence of time 2000
C29_Witness ==
  /\ AwaitsConverging(1)
  /\ startTime[1] = 0
  /\ timeoutMs[1] = 12000
  /\ convergedAt = 2000
  /\ result[1] = [status |-> "success", value |-> TRUE]
  /\ now = 10000

(* ---------------------- properties: consistency ------------------------ *)

\* the report holds the alert, the recommendation
HasAlert(report, alert) == \E n \in DOMAIN report.alerts : report.alerts[n] = alert

HasRecommendation(report, recommendation) ==
  \E n \in DOMAIN report.recommendations : report.recommendations[n] = recommendation

\* C30: in every report the verdict, the alerts and the recommendations
\* agree: healthy comes with neither the success-rate alert nor the
\* recommendation to investigate failures, unhealthy with both, warning with
\* the recommendation, and unknown exactly when there is no valid sample.
C30_Consistent ==
  \A p \in Procs :
    Reported(p) =>
      LET report == result[p].value
          rateAlert == HasAlert(report, "Health check success rate below 80%")
          investigate == HasRecommendation(report, "Investigate health check failures")
      IN /\ report.overall_health \in {"healthy", "warning", "unhealthy", "unknown"}
         /\ report.overall_health = "healthy" => ~rateAlert /\ ~investigate
         /\ report.overall_health = "unhealthy" => rateAlert /\ investigate
         /\ report.overall_health = "warning" => investigate
         /\ report.overall_health = "unknown" <=> ValidPositions = {}

\* five of six valid samples were healthy: the verdict is warning, with the
\* recommendation and without the success-rate alert
C30_Witness ==
  /\ Reported(1)
  /\ Cardinality(ValidPositions) = 6
  /\ Cardinality(HealthyPositions) = 5
  /\ result[1].value.overall_health = "warning"
  /\ HasRecommendation(result[1].value, "Investigate health check failures")
  /\ ~HasAlert(result[1].value, "Health check success rate below 80%")

=========================================================================
